---- MODULE Spec2Model ----
(***************************************************************************)
(* The concurrent batch-fetch pipeline of src/request/utils.go: main (the  *)
(* Dispatcher), the worker goroutines, and the two fetch goroutines each   *)
(* worker starts per dequeued Url.                                         *)
(*                                                                         *)
(* Pointers are modelled as sequences of length 0 (nil) or 1 (the value    *)
(* pointed to); channels as sequences bounded by their capacity.           *)
(***************************************************************************)
EXTENDS Integers, Sequences, FiniteSets, TLC

\* ------------------------------------------------------------------ bounds
MaxItems == 2
MaxWorkers == 2
\* lines and workers of a run together
MaxLoad == 4
\* descriptors in a results slice that is printed on its own
MaxPrinted == 3
\* lines of a file that is read on its own
MaxFileLines == 3
\* collectors handed to CollectAll
MaxCollectors == 2
\* books in books.json and in the body of a request
MaxBooks == 2

\* ------------------------------------------------------- program constants
StatusOK == 200

\* ------------------------------------------------------------ input domains
\* "u1" parses as a request URL, "%bad" does not (http.NewRequestWithContext
\* returns an error for it, with or without the "/comments" suffix).
GoodAddr == "u1"
BadAddr == "%bad"
Addresses == {GoodAddr, BadAddr}

\* Decoded JSON bodies a server may answer the primary request with.  The
\* key "comments" is optional: UserPost.Comments carries no json tag, so the
\* decoder fills it from a key of that name when the body has one.
PlainBody == [valid |-> TRUE, id |-> 1, title |-> "t1", comments |-> <<>>]
EmbedBody == [valid |-> TRUE, id |-> 1, title |-> "t1", comments |-> << <<"Eve">> >>]

Post200 == [transportOk |-> TRUE, status |-> StatusOK, body |-> PlainBody]
Post200Embed == [transportOk |-> TRUE, status |-> StatusOK, body |-> EmbedBody]
Post500 == [transportOk |-> TRUE, status |-> 500, body |-> PlainBody]
Comments200 == [transportOk |-> TRUE, status |-> StatusOK, valid |-> TRUE, names |-> <<"Alice", "Bob">>]
Comments200Empty == [transportOk |-> TRUE, status |-> StatusOK, valid |-> TRUE, names |-> <<>>]
Comments500 == [transportOk |-> TRUE, status |-> 500, valid |-> TRUE, names |-> <<"Alice">>]

\* The server of a run: which responses it may give to a primary and to a
\* dependent request.  Within a run every single request still gets any of
\* the server's responses.  "flaky" fails any request at will, "embed"
\* fails dependent requests at will and answers primary requests with a
\* body that has a "comments" key, "empty" has posts without comments.
Servers == {"flaky", "embed", "empty"}
PostResponses(srv) ==
    IF srv = "flaky" THEN {Post200, Post500}
    ELSE IF srv = "embed" THEN {Post200Embed}
    ELSE {Post200}
CommentsResponses(srv) ==
    IF srv = "flaky" THEN {Comments200, Comments500}
    ELSE IF srv = "embed" THEN {Comments200, Comments500}
    ELSE {Comments200Empty}

\* All lists of at most MaxItems addresses (the lines readLines returns).
RECURSIVE ListsUpTo(_)
ListsUpTo(n) ==
    IF n = 0 THEN {<<>>}
    ELSE LET shorter == ListsUpTo(n - 1)
         IN shorter \cup {Append(l, a) : l \in {s \in shorter : Len(s) = n - 1}, a \in Addresses}

Workers == 1..MaxWorkers

VARIABLES
    absPath,        \* path.IsAbs(*filename)
    nw,             \* *countWorkers
    readOk,         \* readLines returned no error
    lines,          \* the non-blank lines of the file
    ctxCancellable, \* the ctx handed to worker can be cancelled
    server,         \* the server answering the requests of this run
    variant,        \* which worker runs: the concurrent one of request/utils.go or the earlier sequential one
    cancelled,      \* ctx.Done() is closed
    mainPc,         \* position of main
    spawned,        \* workers started so far (w - 1 in main's loop)
    fed,            \* descriptors sent to jobs so far
    jobs,           \* channel jobs
    resps,          \* channel resps
    results,        \* main's results slice
    wpc,            \* position of each worker
    u,              \* each worker's loop variable u
    i,              \* each worker's select loop counter
    pr,             \* each worker's pr
    cr,             \* each worker's cr
    postCh,         \* each worker's postCh
    commCh,         \* each worker's commCh
    fpost,          \* state of the goroutine running u.fetchPost()
    fcomm,          \* state of the goroutine running u.fetchComments()
    abandoned,      \* fetch goroutines still running whose worker has returned
    postRet,        \* history: what fetchPost returned to the task of item k (forgotten with the channel)
    commRet,        \* history: what fetchComments returned to the task of item k (forgotten with the channel)
    pending,        \* history: the item worker w holds or finished last was held, a fetch outstanding, when ctx was cancelled
    late,           \* history: the item worker w holds or finished last was dequeued after ctx was cancelled
    fetchCall,      \* request: one call of fetchPost and of fetchComments, against any response
    report,         \* request: the two printing loops of main over a results slice
    reader,         \* request: one call of readLines
    monitor,        \* monitor: one collection cycle, CollectAll and then Store.Save
    shelf           \* books: one call of AppendNewBooks

\* The functions and programs checked on their own, each under its own
\* specification; a run of request leaves them alone.
otherVars == <<fetchCall, report, reader, monitor, shelf>>
Off == [pc |-> "off"]

runVars == <<absPath, nw, readOk, lines, ctxCancellable, server, variant>>
cfgVars == <<runVars, otherVars>>
mainVars == <<mainPc, spawned, fed, results>>
workerVars == <<wpc, u, i, pr, cr>>
fetchVars == <<postCh, commCh, fpost, fcomm, abandoned>>
histVars == <<postRet, commRet, pending, late>>
vars == <<cfgVars, cancelled, mainVars, jobs, resps, workerVars, fetchVars, histVars>>

\* ------------------------------------------------------------- data model
\* type Url: id is the position of the line in the input, kept to tell
\* copies of equal addresses apart.
Url(k, line) == [id |-> k, url |-> line, success |-> FALSE, post |-> <<>>]
NoUrl == [id |-> 0, url |-> "", success |-> FALSE, post |-> <<>>]

\* zero values of postResult and commentsResult
ZeroPostResult == [post |-> <<>>, err |-> "nil"]
ZeroCommentsResult == [comments |-> <<>>, err |-> "nil"]

numJobs == Len(lines)

\* json.NewDecoder(resp.Body).Decode(&p) for a well-formed body
DecodeUserPost(body) ==
    [PostId |-> body.id, Title |-> body.title, Comments |-> body.comments]

\* mutant: the status of the response is not looked at
fetchPostAnyStatus(url, resp) ==
    IF url = BadAddr THEN [post |-> <<>>, err |-> "new request"]
    ELSE IF ~resp.transportOk THEN [post |-> <<>>, err |-> "http do"]
    ELSE IF ~resp.body.valid THEN [post |-> <<>>, err |-> "json decode"]
    ELSE [post |-> <<DecodeUserPost(resp.body)>>, err |-> "nil"]

\* (url *Url) fetchPost
fetchPost(url, resp) ==
    IF url = BadAddr THEN [post |-> <<>>, err |-> "new request"]
    ELSE IF ~resp.transportOk THEN [post |-> <<>>, err |-> "http do"]
    ELSE IF resp.status # StatusOK THEN [post |-> <<>>, err |-> "unexpected status"]
    ELSE IF ~resp.body.valid THEN [post |-> <<>>, err |-> "json decode"]
    ELSE [post |-> <<DecodeUserPost(resp.body)>>, err |-> "nil"]

\* (url *Url) fetchComments
fetchComments(url, resp) ==
    IF url = BadAddr THEN [comments |-> <<>>, err |-> "new request"]
    ELSE IF ~resp.transportOk THEN [comments |-> <<>>, err |-> "http do"]
    ELSE IF resp.status # StatusOK THEN [comments |-> <<>>, err |-> "unexpected status"]
    ELSE IF ~resp.valid THEN [comments |-> <<>>, err |-> "json decode"]
    ELSE [comments |-> <<resp.names>>, err |-> "nil"]

\* mutant: the error of fetchPost is ignored
ApplyResultsIgnoreErr(d, p, c) ==
    LET d1 == [d EXCEPT !.success = TRUE, !.post = p.post]
    IN IF c.err = "nil" /\ d1.post # <<>>
       THEN [d1 EXCEPT !.post = <<[d1.post[1] EXCEPT !.Comments = c.comments]>>]
       ELSE d1

\* mutant: an empty comment list is treated like a missing one
ApplyResultsDropEmpty(d, p, c) ==
    IF p.err = "nil"
    THEN LET d1 == [d EXCEPT !.success = TRUE, !.post = p.post]
         IN IF c.err = "nil" /\ d1.post # <<>> /\ c.comments # << <<>> >>
            THEN [d1 EXCEPT !.post = <<[d1.post[1] EXCEPT !.Comments = c.comments]>>]
            ELSE d1
    ELSE d

\* mutant: success is set but the post is not stored
ApplyResultsNoPost(d, p, c) ==
    IF p.err = "nil" THEN [d EXCEPT !.success = TRUE] ELSE d

\* worker, "apply results"
ApplyResults(d, p, c) ==
    IF p.err = "nil"
    THEN LET d1 == [d EXCEPT !.success = TRUE, !.post = p.post]
         IN IF c.err = "nil" /\ d1.post # <<>>
            THEN [d1 EXCEPT !.post = <<[d1.post[1] EXCEPT !.Comments = c.comments]>>]
            ELSE d1
    ELSE d

\* ------------------------------------------------------------------- Init
\* main before its first statement: nothing started, nothing sent
RequestStart ==
    /\ cancelled = FALSE
    /\ mainPc = "flags"
    /\ spawned = 0
    /\ fed = 0
    /\ jobs = <<>>
    /\ resps = <<>>
    /\ results = <<>>
    /\ wpc = [w \in Workers |-> "unstarted"]
    /\ u = [w \in Workers |-> NoUrl]
    /\ i = [w \in Workers |-> 0]
    /\ pr = [w \in Workers |-> ZeroPostResult]
    /\ cr = [w \in Workers |-> ZeroCommentsResult]
    /\ postCh = [w \in Workers |-> <<>>]
    /\ commCh = [w \in Workers |-> <<>>]
    /\ fpost = [w \in Workers |-> "none"]
    /\ fcomm = [w \in Workers |-> "none"]
    /\ abandoned = 0
    /\ postRet = [k \in 1..Len(lines) |-> <<>>]
    /\ commRet = [k \in 1..Len(lines) |-> <<>>]
    /\ pending = [w \in Workers |-> FALSE]
    /\ late = [w \in Workers |-> FALSE]

\* a run of request that is never started (the other specifications)
RequestOff ==
    /\ absPath = FALSE /\ nw = 0 /\ readOk = FALSE /\ lines = <<>>
    /\ ctxCancellable = FALSE /\ server = "empty" /\ variant = "concurrent"
    /\ RequestStart

requestVars == <<runVars, cancelled, mainVars, jobs, resps, workerVars, fetchVars, histVars>>

Init ==
    /\ absPath \in BOOLEAN
    /\ nw \in -1..MaxWorkers
    /\ readOk \in BOOLEAN
    /\ lines \in ListsUpTo(MaxItems)
    /\ nw + Len(lines) <= MaxLoad
    /\ ctxCancellable \in BOOLEAN
    /\ server \in Servers
    /\ variant = "concurrent"
    /\ RequestStart
    /\ fetchCall = Off /\ report = Off /\ reader = Off /\ monitor = Off /\ shelf = Off

\* ------------------------------------------------------------------- main
\* mutant: a worker count of zero is rejected like a negative one
MainValidateRejectsZero ==
    /\ mainPc = "flags"
    /\ mainPc' = IF ~absPath \/ nw <= 0 \/ ~readOk THEN "panic" ELSE "spawn"
    /\ UNCHANGED <<cfgVars, cancelled, spawned, fed, results, jobs, resps,
                   workerVars, fetchVars, histVars>>

\* mutant: a list that cannot be read is treated as read
MainValidateIgnoresRead ==
    /\ mainPc = "flags"
    /\ mainPc' = IF ~absPath \/ nw < 0 THEN "panic" ELSE "spawn"
    /\ UNCHANGED <<cfgVars, cancelled, spawned, fed, results, jobs, resps,
                   workerVars, fetchVars, histVars>>

\* flag checks and readLines: any failure panics before anything is started
MainValidate ==
    /\ mainPc = "flags"
    /\ mainPc' = IF ~absPath \/ nw < 0 \/ ~readOk THEN "panic" ELSE "spawn"
    /\ UNCHANGED <<cfgVars, cancelled, spawned, fed, results, jobs, resps,
                   workerVars, fetchVars, histVars>>

\* go worker(context.Background(), w, jobs, resps)
MainSpawn ==
    /\ mainPc = "spawn"
    /\ spawned < nw
    /\ spawned' = spawned + 1
    /\ wpc' = [wpc EXCEPT ![spawned + 1] = "idle"]
    /\ UNCHANGED <<cfgVars, cancelled, mainPc, fed, results, jobs, resps,
                   u, i, pr, cr, fetchVars, histVars>>

MainSpawnDone ==
    /\ mainPc = "spawn"
    /\ spawned >= nw
    /\ mainPc' = "feed"
    /\ UNCHANGED <<cfgVars, cancelled, spawned, fed, results, jobs, resps,
                   workerVars, fetchVars, histVars>>

\* jobs <- url
MainFeed ==
    /\ mainPc = "feed"
    /\ fed < numJobs
    /\ Len(jobs) < numJobs
    /\ jobs' = Append(jobs, Url(fed + 1, lines[fed + 1]))
    /\ fed' = fed + 1
    /\ UNCHANGED <<cfgVars, cancelled, mainPc, spawned, results, resps,
                   workerVars, fetchVars, histVars>>

MainFeedDone ==
    /\ mainPc = "feed"
    /\ fed >= numJobs
    /\ mainPc' = "recv"
    /\ UNCHANGED <<cfgVars, cancelled, spawned, fed, results, jobs, resps,
                   workerVars, fetchVars, histVars>>

\* mutant: main receives one descriptor fewer than it has sent
\* (a := 1; a < numJobs)
MainRecvDoneOneShort ==
    /\ mainPc = "recv"
    /\ Len(results) >= numJobs - 1
    /\ mainPc' = "present"
    /\ UNCHANGED <<cfgVars, cancelled, spawned, fed, results, jobs, resps,
                   workerVars, fetchVars, histVars>>

\* mutant: the received descriptor is not taken out of resps
MainRecvPeek ==
    /\ mainPc = "recv"
    /\ Len(results) < numJobs
    /\ resps # <<>>
    /\ results' = Append(results, Head(resps))
    /\ UNCHANGED <<cfgVars, cancelled, mainPc, spawned, fed, jobs, resps,
                   workerVars, fetchVars, histVars>>

\* results = append(results, <-resps)
MainRecv ==
    /\ mainPc = "recv"
    /\ Len(results) < numJobs
    /\ resps # <<>>
    /\ results' = Append(results, Head(resps))
    /\ resps' = Tail(resps)
    /\ UNCHANGED <<cfgVars, cancelled, mainPc, spawned, fed, jobs,
                   workerVars, fetchVars, histVars>>

MainRecvDone ==
    /\ mainPc = "recv"
    /\ Len(results) >= numJobs
    /\ mainPc' = "present"
    /\ UNCHANGED <<cfgVars, cancelled, spawned, fed, results, jobs, resps,
                   workerVars, fetchVars, histVars>>

\* the two printing loops: p.post.PostId dereferences p.post when p.success
MainPresent ==
    /\ mainPc = "present"
    /\ mainPc' = IF \E k \in 1..Len(results) : results[k].success /\ results[k].post = <<>>
                 THEN "panic" ELSE "done"
    /\ UNCHANGED <<cfgVars, cancelled, spawned, fed, results, jobs, resps,
                   workerVars, fetchVars, histVars>>

Main ==
    \/ MainValidate
    \/ MainSpawn
    \/ MainSpawnDone
    \/ MainFeed
    \/ MainFeedDone
    \/ MainRecv
    \/ MainRecvDone
    \/ MainPresent

\* ----------------------------------------------------------------- worker
\* mutant: the descriptor is read from jobs but left there for the next
\* receiver
WorkerDequeuePeek(w) ==
    /\ wpc[w] = "idle"
    /\ jobs # <<>>
    /\ u' = [u EXCEPT ![w] = Head(jobs)]
    /\ postCh' = [postCh EXCEPT ![w] = <<>>]
    /\ commCh' = [commCh EXCEPT ![w] = <<>>]
    /\ fpost' = [fpost EXCEPT ![w] = "running"]
    /\ fcomm' = [fcomm EXCEPT ![w] = "running"]
    /\ i' = [i EXCEPT ![w] = 0]
    /\ pr' = [pr EXCEPT ![w] = ZeroPostResult]
    /\ cr' = [cr EXCEPT ![w] = ZeroCommentsResult]
    /\ wpc' = [wpc EXCEPT ![w] = "select"]
    /\ pending' = [pending EXCEPT ![w] = FALSE]
    /\ late' = [late EXCEPT ![w] = cancelled]
    /\ UNCHANGED <<cfgVars, cancelled, mainVars, jobs, resps, abandoned, postRet, commRet>>

\* mutant: a worker takes the next descriptor although it still waits for
\* the fetches of the one it holds
WorkerDequeueEager(w) ==
    /\ wpc[w] \in {"idle", "select"}
    /\ jobs # <<>>
    /\ u' = [u EXCEPT ![w] = Head(jobs)]
    /\ jobs' = Tail(jobs)
    /\ postCh' = [postCh EXCEPT ![w] = <<>>]
    /\ commCh' = [commCh EXCEPT ![w] = <<>>]
    /\ fpost' = [fpost EXCEPT ![w] = "running"]
    /\ fcomm' = [fcomm EXCEPT ![w] = "running"]
    /\ i' = [i EXCEPT ![w] = 0]
    /\ pr' = [pr EXCEPT ![w] = ZeroPostResult]
    /\ cr' = [cr EXCEPT ![w] = ZeroCommentsResult]
    /\ wpc' = [wpc EXCEPT ![w] = "select"]
    /\ pending' = [pending EXCEPT ![w] = FALSE]
    /\ late' = [late EXCEPT ![w] = cancelled]
    /\ UNCHANGED <<cfgVars, cancelled, mainVars, resps, abandoned, postRet, commRet>>

\* mutant: the ctx.Done() case only ends the item (continue), so a worker
\* that took it dequeues again
WorkerDequeueAfterCancel(w) ==
    /\ wpc[w] \in {"idle", "stopped"}
    /\ jobs # <<>>
    /\ u' = [u EXCEPT ![w] = Head(jobs)]
    /\ jobs' = Tail(jobs)
    /\ postCh' = [postCh EXCEPT ![w] = <<>>]
    /\ commCh' = [commCh EXCEPT ![w] = <<>>]
    /\ fpost' = [fpost EXCEPT ![w] = "running"]
    /\ fcomm' = [fcomm EXCEPT ![w] = "running"]
    /\ i' = [i EXCEPT ![w] = 0]
    /\ pr' = [pr EXCEPT ![w] = ZeroPostResult]
    /\ cr' = [cr EXCEPT ![w] = ZeroCommentsResult]
    /\ wpc' = [wpc EXCEPT ![w] = "select"]
    /\ pending' = [pending EXCEPT ![w] = FALSE]
    /\ late' = [late EXCEPT ![w] = cancelled]
    /\ UNCHANGED <<cfgVars, cancelled, mainVars, resps, abandoned, postRet, commRet>>

\* mutant: ctx is looked at on the way into an iteration, so a worker that
\* dequeues after the cancellation forwards the descriptor at once and returns
WorkerDequeueChecksCtx(w) ==
    /\ wpc[w] = "idle"
    /\ jobs # <<>>
    /\ u' = [u EXCEPT ![w] = Head(jobs)]
    /\ jobs' = Tail(jobs)
    /\ IF cancelled
       THEN /\ resps' = Append(resps, Head(jobs))
            /\ wpc' = [wpc EXCEPT ![w] = "stopped"]
            /\ UNCHANGED <<postCh, commCh, fpost, fcomm, i, pr, cr, pending, late>>
       ELSE /\ postCh' = [postCh EXCEPT ![w] = <<>>]
            /\ commCh' = [commCh EXCEPT ![w] = <<>>]
            /\ fpost' = [fpost EXCEPT ![w] = "running"]
            /\ fcomm' = [fcomm EXCEPT ![w] = "running"]
            /\ i' = [i EXCEPT ![w] = 0]
            /\ pr' = [pr EXCEPT ![w] = ZeroPostResult]
            /\ cr' = [cr EXCEPT ![w] = ZeroCommentsResult]
            /\ wpc' = [wpc EXCEPT ![w] = "select"]
            /\ pending' = [pending EXCEPT ![w] = FALSE]
            /\ late' = [late EXCEPT ![w] = cancelled]
            /\ UNCHANGED resps
    /\ UNCHANGED <<cfgVars, cancelled, mainVars, abandoned, postRet, commRet>>

\* for u := range jobs, make the two channels, start the two goroutines
WorkerDequeue(w) ==
    /\ wpc[w] = "idle"
    /\ jobs # <<>>
    /\ u' = [u EXCEPT ![w] = Head(jobs)]
    /\ jobs' = Tail(jobs)
    /\ postCh' = [postCh EXCEPT ![w] = <<>>]
    /\ commCh' = [commCh EXCEPT ![w] = <<>>]
    /\ fpost' = [fpost EXCEPT ![w] = "running"]
    /\ fcomm' = [fcomm EXCEPT ![w] = "running"]
    /\ i' = [i EXCEPT ![w] = 0]
    /\ pr' = [pr EXCEPT ![w] = ZeroPostResult]
    /\ cr' = [cr EXCEPT ![w] = ZeroCommentsResult]
    /\ wpc' = [wpc EXCEPT ![w] = "select"]
    /\ pending' = [pending EXCEPT ![w] = FALSE]
    /\ late' = [late EXCEPT ![w] = cancelled]
    /\ UNCHANGED <<cfgVars, cancelled, mainVars, resps, abandoned, postRet, commRet>>

\* case pr = <-postCh
WorkerRecvPost(w) ==
    /\ wpc[w] = "select"
    /\ i[w] < 2
    /\ postCh[w] # <<>>
    /\ pr' = [pr EXCEPT ![w] = Head(postCh[w])]
    /\ postCh' = [postCh EXCEPT ![w] = Tail(postCh[w])]
    /\ i' = [i EXCEPT ![w] = i[w] + 1]
    /\ UNCHANGED <<cfgVars, cancelled, mainVars, jobs, resps, wpc, u, cr,
                   commCh, fpost, fcomm, abandoned, histVars>>

\* mutant: receiving from commCh also overwrites pr with its zero value, so
\* a post that was received first is lost
WorkerRecvCommResetsPost(w) ==
    /\ wpc[w] = "select"
    /\ i[w] < 2
    /\ commCh[w] # <<>>
    /\ cr' = [cr EXCEPT ![w] = Head(commCh[w])]
    /\ pr' = [pr EXCEPT ![w] = ZeroPostResult]
    /\ commCh' = [commCh EXCEPT ![w] = Tail(commCh[w])]
    /\ i' = [i EXCEPT ![w] = i[w] + 1]
    /\ UNCHANGED <<cfgVars, cancelled, mainVars, jobs, resps, wpc, u,
                   postCh, fpost, fcomm, abandoned, histVars>>

\* case cr = <-commCh
WorkerRecvComm(w) ==
    /\ wpc[w] = "select"
    /\ i[w] < 2
    /\ commCh[w] # <<>>
    /\ cr' = [cr EXCEPT ![w] = Head(commCh[w])]
    /\ commCh' = [commCh EXCEPT ![w] = Tail(commCh[w])]
    /\ i' = [i EXCEPT ![w] = i[w] + 1]
    /\ UNCHANGED <<cfgVars, cancelled, mainVars, jobs, resps, wpc, u, pr,
                   postCh, fpost, fcomm, abandoned, histVars>>

\* return of a worker inside the select loop: its channels and whatever they
\* hold become unreachable, and with them what the fetches returned; the
\* fetch goroutines that have not returned yet run on, known to nobody but
\* themselves
Abandon(w) ==
    /\ abandoned' = abandoned + (IF fpost[w] = "running" THEN 1 ELSE 0)
                              + (IF fcomm[w] = "running" THEN 1 ELSE 0)
    /\ fpost' = [fpost EXCEPT ![w] = "none"]
    /\ fcomm' = [fcomm EXCEPT ![w] = "none"]
    /\ postCh' = [postCh EXCEPT ![w] = <<>>]
    /\ commCh' = [commCh EXCEPT ![w] = <<>>]
    /\ postRet' = [postRet EXCEPT ![u[w].id] = <<>>]
    /\ commRet' = [commRet EXCEPT ![u[w].id] = <<>>]
    /\ pending' = [pending EXCEPT ![w] = FALSE]
    /\ late' = [late EXCEPT ![w] = FALSE]

\* mutant: the worker sends u in the ctx.Done() case and, instead of
\* returning, leaves the select loop and sends it again after the merge
WorkerCancelledBreaks(w) ==
    /\ wpc[w] = "select"
    /\ i[w] < 2
    /\ cancelled
    /\ Len(resps) < numJobs
    /\ resps' = Append(resps, u[w])
    /\ i' = [i EXCEPT ![w] = 2]
    /\ UNCHANGED <<cfgVars, cancelled, mainVars, jobs, wpc, u, pr, cr, fetchVars, histVars>>

\* mutant: the worker sends u and goes on waiting with it
WorkerCancelledKeeps(w) ==
    /\ wpc[w] = "select"
    /\ i[w] < 2
    /\ cancelled
    /\ Len(resps) < numJobs
    /\ resps' = Append(resps, u[w])
    /\ UNCHANGED <<cfgVars, cancelled, mainVars, jobs, workerVars, fetchVars, histVars>>

\* mutant: the worker leaves the select only once both fetches have returned
WorkerCancelledAwaitsFetches(w) ==
    /\ wpc[w] = "select"
    /\ i[w] < 2
    /\ cancelled
    /\ fpost[w] = "done" /\ fcomm[w] = "done"
    /\ Len(resps) < numJobs
    /\ resps' = Append(resps, u[w])
    /\ wpc' = [wpc EXCEPT ![w] = "stopped"]
    /\ i' = [i EXCEPT ![w] = 0]
    /\ pr' = [pr EXCEPT ![w] = ZeroPostResult]
    /\ cr' = [cr EXCEPT ![w] = ZeroCommentsResult]
    /\ Abandon(w)
    /\ UNCHANGED <<cfgVars, cancelled, mainVars, jobs, u>>

\* mutant: the results received so far are applied before u is sent
WorkerCancelledApplies(w) ==
    /\ wpc[w] = "select"
    /\ i[w] < 2
    /\ cancelled
    /\ Len(resps) < numJobs
    /\ resps' = Append(resps, ApplyResults(u[w], pr[w], cr[w]))
    /\ wpc' = [wpc EXCEPT ![w] = "stopped"]
    /\ i' = [i EXCEPT ![w] = 0]
    /\ pr' = [pr EXCEPT ![w] = ZeroPostResult]
    /\ cr' = [cr EXCEPT ![w] = ZeroCommentsResult]
    /\ Abandon(w)
    /\ UNCHANGED <<cfgVars, cancelled, mainVars, jobs, u>>

\* mutant: the post received so far is attached to u before it is sent
WorkerCancelledMergesPost(w) ==
    /\ wpc[w] = "select"
    /\ i[w] < 2
    /\ cancelled
    /\ Len(resps) < numJobs
    /\ resps' = Append(resps, [u[w] EXCEPT !.post = pr[w].post])
    /\ wpc' = [wpc EXCEPT ![w] = "stopped"]
    /\ i' = [i EXCEPT ![w] = 0]
    /\ Abandon(w)
    /\ UNCHANGED <<cfgVars, cancelled, mainVars, jobs, u, pr, cr>>

\* case <-ctx.Done(): results <- u; return.  pr and cr keep what the task
\* had received when it returned; nothing reads them afterwards.
WorkerCancelled(w) ==
    /\ wpc[w] = "select"
    /\ i[w] < 2
    /\ cancelled
    /\ Len(resps) < numJobs
    /\ resps' = Append(resps, u[w])
    /\ wpc' = [wpc EXCEPT ![w] = "stopped"]
    /\ i' = [i EXCEPT ![w] = 0]
    /\ Abandon(w)
    /\ UNCHANGED <<cfgVars, cancelled, mainVars, jobs, u, pr, cr>>

\* mutant: the select loop is left after the first outcome (i < 1)
WorkerFinishAfterFirst(w) ==
    /\ wpc[w] = "select"
    /\ i[w] >= 1
    /\ Len(resps) < numJobs
    /\ resps' = Append(resps, ApplyResults(u[w], pr[w], cr[w]))
    /\ wpc' = [wpc EXCEPT ![w] = "idle"]
    /\ u' = [u EXCEPT ![w] = NoUrl]
    /\ i' = [i EXCEPT ![w] = 0]
    /\ pr' = [pr EXCEPT ![w] = ZeroPostResult]
    /\ cr' = [cr EXCEPT ![w] = ZeroCommentsResult]
    /\ fpost' = [fpost EXCEPT ![w] = "none"]
    /\ fcomm' = [fcomm EXCEPT ![w] = "none"]
    /\ UNCHANGED <<cfgVars, cancelled, mainVars, jobs, postCh, commCh, abandoned, histVars>>

\* mutant: a failed fetchPost ends the worker without sending u
WorkerFinishAbortsOnError(w) ==
    /\ wpc[w] = "select"
    /\ i[w] = 2
    /\ Len(resps) < numJobs
    /\ resps' = IF pr[w].err = "nil" THEN Append(resps, ApplyResults(u[w], pr[w], cr[w])) ELSE resps
    /\ wpc' = [wpc EXCEPT ![w] = IF pr[w].err = "nil" THEN "idle" ELSE "stopped"]
    /\ u' = [u EXCEPT ![w] = NoUrl]
    /\ i' = [i EXCEPT ![w] = 0]
    /\ pr' = [pr EXCEPT ![w] = ZeroPostResult]
    /\ cr' = [cr EXCEPT ![w] = ZeroCommentsResult]
    /\ fpost' = [fpost EXCEPT ![w] = "none"]
    /\ fcomm' = [fcomm EXCEPT ![w] = "none"]
    /\ UNCHANGED <<cfgVars, cancelled, mainVars, jobs, postCh, commCh, abandoned, histVars>>

\* mutant: jobs is closed once everything is sent, so a worker that finds it
\* drained after its send leaves the range loop
WorkerFinishThenLeaves(w) ==
    /\ wpc[w] = "select"
    /\ i[w] = 2
    /\ Len(resps) < numJobs
    /\ resps' = Append(resps, ApplyResults(u[w], pr[w], cr[w]))
    /\ wpc' = [wpc EXCEPT ![w] = IF jobs = <<>> /\ fed = numJobs THEN "stopped" ELSE "idle"]
    /\ u' = [u EXCEPT ![w] = NoUrl]
    /\ i' = [i EXCEPT ![w] = 0]
    /\ pr' = [pr EXCEPT ![w] = ZeroPostResult]
    /\ cr' = [cr EXCEPT ![w] = ZeroCommentsResult]
    /\ fpost' = [fpost EXCEPT ![w] = "none"]
    /\ fcomm' = [fcomm EXCEPT ![w] = "none"]
    /\ UNCHANGED <<cfgVars, cancelled, mainVars, jobs, postCh, commCh, abandoned, histVars>>

\* after the select loop: apply results, results <- u, next iteration
WorkerFinish(w) ==
    /\ wpc[w] = "select"
    /\ i[w] = 2
    /\ Len(resps) < numJobs
    /\ resps' = Append(resps, ApplyResults(u[w], pr[w], cr[w]))
    /\ wpc' = [wpc EXCEPT ![w] = "idle"]
    /\ u' = [u EXCEPT ![w] = NoUrl]
    /\ i' = [i EXCEPT ![w] = 0]
    /\ pr' = [pr EXCEPT ![w] = ZeroPostResult]
    /\ cr' = [cr EXCEPT ![w] = ZeroCommentsResult]
    /\ fpost' = [fpost EXCEPT ![w] = "none"]
    /\ fcomm' = [fcomm EXCEPT ![w] = "none"]
    /\ UNCHANGED <<cfgVars, cancelled, mainVars, jobs, postCh, commCh, abandoned, histVars>>

Worker(w) ==
    \/ WorkerDequeue(w)
    \/ WorkerRecvPost(w)
    \/ WorkerRecvComm(w)
    \/ WorkerCancelled(w)
    \/ WorkerFinish(w)

\* ------------------------------------------------------- fetch goroutines
\* mutant: postCh is shared by the workers, so the result of one worker's
\* fetchPost can reach another worker's select
FetchPostReturnShared(w) ==
    /\ fpost[w] = "running"
    /\ \E x \in {y \in Workers : wpc[y] = "select"} :
         /\ Len(postCh[x]) < 1
         /\ \E resp \in PostResponses(server) :
              LET r == fetchPost(u[w].url, resp)
              IN /\ postCh' = [postCh EXCEPT ![x] = Append(postCh[x], r)]
                 /\ postRet' = [postRet EXCEPT ![u[w].id] = <<r>>]
    /\ fpost' = [fpost EXCEPT ![w] = "done"]
    /\ UNCHANGED <<cfgVars, cancelled, mainVars, jobs, resps, workerVars,
                   commCh, fcomm, abandoned, commRet, pending, late>>

\* mutant: a failed primary request is tried again by a second goroutine
\* while the first outcome is reported
FetchPostReturnRetries(w) ==
    /\ fpost[w] = "running"
    /\ Len(postCh[w]) < 1
    /\ \E resp \in PostResponses(server) :
         LET r == fetchPost(u[w].url, resp)
         IN /\ postCh' = [postCh EXCEPT ![w] = Append(postCh[w], r)]
            /\ postRet' = [postRet EXCEPT ![u[w].id] = <<r>>]
            /\ abandoned' = IF r.err # "nil" THEN abandoned + 1 ELSE abandoned
    /\ fpost' = [fpost EXCEPT ![w] = "done"]
    /\ UNCHANGED <<cfgVars, cancelled, mainVars, jobs, resps, workerVars,
                   commCh, fcomm, commRet, pending, late>>

\* p, err := u.fetchPost(); postCh <- postResult{post: p, err: err}
FetchPostReturn(w) ==
    /\ fpost[w] = "running"
    /\ Len(postCh[w]) < 1
    /\ \E resp \in PostResponses(server) :
         LET r == fetchPost(u[w].url, resp)
         IN /\ postCh' = [postCh EXCEPT ![w] = Append(postCh[w], r)]
            /\ postRet' = [postRet EXCEPT ![u[w].id] = <<r>>]
    /\ fpost' = [fpost EXCEPT ![w] = "done"]
    /\ UNCHANGED <<cfgVars, cancelled, mainVars, jobs, resps, workerVars,
                   commCh, fcomm, abandoned, commRet, pending, late>>

\* c, err := u.fetchComments(); commCh <- commentsResult{comments: c, err: err}
FetchCommReturn(w) ==
    /\ fcomm[w] = "running"
    /\ Len(commCh[w]) < 1
    /\ \E resp \in CommentsResponses(server) :
         LET r == fetchComments(u[w].url, resp)
         IN /\ commCh' = [commCh EXCEPT ![w] = Append(commCh[w], r)]
            /\ commRet' = [commRet EXCEPT ![u[w].id] = <<r>>]
    /\ fcomm' = [fcomm EXCEPT ![w] = "done"]
    /\ UNCHANGED <<cfgVars, cancelled, mainVars, jobs, resps, workerVars,
                   postCh, fpost, abandoned, postRet, pending, late>>

\* mutant: the result channels are unbuffered, so the send of a fetch whose
\* worker has returned finds no receiver
FetchAbandonedBlocks ==
    /\ abandoned > 0
    /\ \E receiver \in {w \in Workers : wpc[w] = "select" /\ wpc[w] = "stopped"} :
         abandoned' = abandoned - 1
    /\ UNCHANGED <<cfgVars, cancelled, mainVars, jobs, resps, workerVars,
                   postCh, commCh, fpost, fcomm, histVars>>

\* a fetch goroutine whose worker has returned: the fetch returns and the
\* result is sent to a channel (capacity 1, no earlier send) nobody reads
FetchAbandonedReturn ==
    /\ abandoned > 0
    /\ abandoned' = abandoned - 1
    /\ UNCHANGED <<cfgVars, cancelled, mainVars, jobs, resps, workerVars,
                   postCh, commCh, fpost, fcomm, histVars>>

\* ------------------------------------------------------------ environment
InFlight == {w \in Workers : wpc[w] = "select"}

\* mutant: ctx is handed down to the requests, so cancelling it makes every
\* running fetch return an error at once
CancelAbortsFetches ==
    /\ ctxCancellable
    /\ ~cancelled
    /\ cancelled' = TRUE
    /\ pending' = [w \in Workers |-> w \in InFlight /\ (fpost[w] = "running" \/ fcomm[w] = "running")]
    /\ postCh' = [w \in Workers |->
                    IF fpost[w] = "running"
                    THEN <<[post |-> <<>>, err |-> "http do"]>> ELSE postCh[w]]
    /\ commCh' = [w \in Workers |->
                    IF fcomm[w] = "running"
                    THEN <<[comments |-> <<>>, err |-> "http do"]>> ELSE commCh[w]]
    /\ fpost' = [w \in Workers |-> IF fpost[w] = "running" THEN "done" ELSE fpost[w]]
    /\ fcomm' = [w \in Workers |-> IF fcomm[w] = "running" THEN "done" ELSE fcomm[w]]
    /\ UNCHANGED <<cfgVars, mainVars, jobs, resps, workerVars, abandoned,
                   postRet, commRet, late>>

\* the owner of ctx cancels it
Cancel ==
    /\ ctxCancellable
    /\ ~cancelled
    /\ cancelled' = TRUE
    /\ pending' = [w \in Workers |-> w \in InFlight /\ (fpost[w] = "running" \/ fcomm[w] = "running")]
    /\ UNCHANGED <<cfgVars, mainVars, jobs, resps, workerVars, fetchVars,
                   postRet, commRet, late>>

Next ==
    \/ Main
    \/ \E w \in Workers : Worker(w)
    \/ \E w \in Workers : FetchPostReturn(w)
    \/ \E w \in Workers : FetchCommReturn(w)
    \/ FetchAbandonedReturn
    \/ Cancel

Spec == Init /\ [][Next]_vars

\* ------------------------------------------ the earlier, sequential worker
\* The variant without ctx: the worker fetches the post, then the comments,
\* merges and sends.  main, the fetches and the types are those of
\* request/utils.go, line for line.

\* mutant: the comments are attached to the post whatever fetchComments returned
EarlierApplyAlways(d, p, c) ==
    IF p.err = "nil"
    THEN [d EXCEPT !.success = TRUE,
                   !.post = <<[p.post[1] EXCEPT !.Comments = c.comments]>>]
    ELSE d

\* if err1 == nil { success, post; if err2 == nil { post.Comments = comments } }
EarlierApply(d, p, c) ==
    IF p.err = "nil"
    THEN LET d1 == [d EXCEPT !.success = TRUE, !.post = p.post]
         IN IF c.err = "nil"
            THEN [d1 EXCEPT !.post = <<[d1.post[1] EXCEPT !.Comments = c.comments]>>]
            ELSE d1
    ELSE d

\* for url := range jobs
EarlierDequeue(w) ==
    /\ variant = "sequential"
    /\ wpc[w] = "idle"
    /\ jobs # <<>>
    /\ u' = [u EXCEPT ![w] = Head(jobs)]
    /\ jobs' = Tail(jobs)
    /\ wpc' = [wpc EXCEPT ![w] = "fetchPost"]
    /\ UNCHANGED <<cfgVars, cancelled, mainVars, resps, i, pr, cr, fetchVars, histVars>>

\* post, err1 := url.fetchPost()
EarlierFetchPost(w) ==
    /\ wpc[w] = "fetchPost"
    /\ \E resp \in PostResponses(server) :
         LET r == fetchPost(u[w].url, resp)
         IN /\ pr' = [pr EXCEPT ![w] = r]
            /\ postRet' = [postRet EXCEPT ![u[w].id] = <<r>>]
    /\ wpc' = [wpc EXCEPT ![w] = "fetchComments"]
    /\ UNCHANGED <<cfgVars, cancelled, mainVars, jobs, resps, u, i, cr, fetchVars,
                   commRet, pending, late>>

\* comments, err2 := url.fetchComments()
EarlierFetchComments(w) ==
    /\ wpc[w] = "fetchComments"
    /\ \E resp \in CommentsResponses(server) :
         LET r == fetchComments(u[w].url, resp)
         IN /\ cr' = [cr EXCEPT ![w] = r]
            /\ commRet' = [commRet EXCEPT ![u[w].id] = <<r>>]
    /\ wpc' = [wpc EXCEPT ![w] = "merge"]
    /\ UNCHANGED <<cfgVars, cancelled, mainVars, jobs, resps, u, i, pr, fetchVars,
                   postRet, pending, late>>

\* the merge and results <- url
EarlierSend(w) ==
    /\ wpc[w] = "merge"
    /\ Len(resps) < numJobs
    /\ resps' = Append(resps, EarlierApply(u[w], pr[w], cr[w]))
    /\ wpc' = [wpc EXCEPT ![w] = "idle"]
    /\ u' = [u EXCEPT ![w] = NoUrl]
    /\ pr' = [pr EXCEPT ![w] = ZeroPostResult]
    /\ cr' = [cr EXCEPT ![w] = ZeroCommentsResult]
    /\ UNCHANGED <<cfgVars, cancelled, mainVars, jobs, i, fetchVars, histVars>>

EarlierWorker(w) ==
    \/ EarlierDequeue(w)
    \/ EarlierFetchPost(w)
    \/ EarlierFetchComments(w)
    \/ EarlierSend(w)

\* the concurrent worker in a run whose ctx is never cancelled
ConcurrentWorker(w) ==
    /\ variant = "concurrent"
    /\ \/ WorkerDequeue(w)
       \/ WorkerRecvPost(w)
       \/ WorkerRecvComm(w)
       \/ WorkerFinish(w)
       \/ FetchPostReturn(w)
       \/ FetchCommReturn(w)

\* the same flags, file and server for either variant; context.Background()
\* is never cancelled
InitVariants ==
    /\ absPath \in BOOLEAN
    /\ nw \in -1..MaxWorkers
    /\ readOk \in BOOLEAN
    /\ lines \in ListsUpTo(MaxItems)
    /\ nw + Len(lines) <= MaxLoad
    /\ ctxCancellable = FALSE
    /\ server \in Servers
    /\ variant \in {"concurrent", "sequential"}
    /\ RequestStart
    /\ fetchCall = Off /\ report = Off /\ reader = Off /\ monitor = Off /\ shelf = Off

NextVariants ==
    \/ Main
    \/ \E w \in Workers : ConcurrentWorker(w)
    \/ \E w \in Workers : EarlierWorker(w)

SpecVariants == InitVariants /\ [][NextVariants]_vars

\* ------------------------------------------------- fetchPost, fetchComments
\* One call of each fetch for any address and any answer of the network: no
\* response at all (transportOk = FALSE), a response with any status, a
\* body that decodes or does not.
InvalidBody == [valid |-> FALSE, id |-> 0, title |-> "", comments |-> <<>>]
Statuses == {StatusOK, 404, 500}
AnyPostResponse ==
    [transportOk : BOOLEAN, status : Statuses, body : {PlainBody, EmbedBody, InvalidBody}]
AnyCommentsResponse ==
    [transportOk : BOOLEAN, status : Statuses, valid : BOOLEAN,
     names : {<<>>, <<"Alice", "Bob">>}]

InitFetch ==
    /\ RequestOff
    /\ report = Off /\ reader = Off /\ monitor = Off /\ shelf = Off
    /\ \E a \in Addresses, r \in AnyPostResponse, c \in AnyCommentsResponse :
         fetchCall = [pc |-> "on", url |-> a, postResp |-> r, commResp |-> c,
                      post |-> <<>>, comments |-> <<>>]

\* p, err := u.fetchPost()
FetchPostCall ==
    /\ fetchCall.pc = "on"
    /\ fetchCall.post = <<>>
    /\ fetchCall' = [fetchCall EXCEPT !.post = <<fetchPost(fetchCall.url, fetchCall.postResp)>>]
    /\ UNCHANGED <<requestVars, report, reader, monitor, shelf>>

\* c, err := u.fetchComments()
FetchCommentsCall ==
    /\ fetchCall.pc = "on"
    /\ fetchCall.comments = <<>>
    /\ fetchCall' = [fetchCall EXCEPT !.comments = <<fetchComments(fetchCall.url, fetchCall.commResp)>>]
    /\ UNCHANGED <<requestVars, report, reader, monitor, shelf>>

NextFetch == FetchPostCall \/ FetchCommentsCall

SpecFetch == InitFetch /\ [][NextFetch]_vars

\* ------------------------------------------------- main's printing loops
\* The two loops over results, for any slice main can have received: the
\* descriptor of line k has address k; it failed, or it succeeded with no
\* comments attached, with an empty list or with names.
Printable(k) ==
    {[id |-> k, url |-> k, success |-> FALSE, post |-> <<>>]}
    \cup {[id |-> k, url |-> k, success |-> TRUE,
           post |-> <<[PostId |-> k, Title |-> "t", Comments |-> c]>>] :
             c \in {<<>>, << <<>> >>, << <<"Alice">> >>, << <<"Alice", "Bob">> >>}}

RECURSIVE ResultSlices(_)
ResultSlices(n) ==
    IF n = 0 THEN {<<>>}
    ELSE LET shorter == ResultSlices(n - 1)
         IN shorter \cup {Append(l, d) : l \in {s \in shorter : Len(s) = n - 1}, d \in Printable(n)}

InitReport ==
    /\ RequestOff
    /\ fetchCall = Off /\ reader = Off /\ monitor = Off /\ shelf = Off
    /\ \E rs \in ResultSlices(MaxPrinted) :
         report = [pc |-> "posts", results |-> rs, posts |-> <<>>, comments |-> <<>>]

\* first loop: a line with id and title, or the failure marker with the url
PrintPost ==
    /\ report.pc = "posts"
    /\ Len(report.posts) < Len(report.results)
    /\ LET p == report.results[Len(report.posts) + 1]
       IN report' = [report EXCEPT !.posts = Append(@,
                       IF p.success
                       THEN [line |-> "post", id |-> p.post[1].PostId, title |-> p.post[1].Title]
                       ELSE [line |-> "error getting post", url |-> p.url])]
    /\ UNCHANGED <<requestVars, fetchCall, reader, monitor, shelf>>

\* fmt.Println() between the loops
PrintPostsDone ==
    /\ report.pc = "posts"
    /\ Len(report.posts) >= Len(report.results)
    /\ report' = [report EXCEPT !.pc = "comments"]
    /\ UNCHANGED <<requestVars, fetchCall, reader, monitor, shelf>>

\* mutant: an empty list of comments is printed as a failure
PrintCommentsNonEmpty ==
    /\ report.pc = "comments"
    /\ Len(report.comments) < Len(report.results)
    /\ LET p == report.results[Len(report.comments) + 1]
       IN report' = [report EXCEPT !.comments = Append(@,
                       IF p.success /\ p.post[1].Comments # <<>> /\ p.post[1].Comments[1] # <<>>
                       THEN [line |-> "commented", id |-> p.post[1].PostId,
                             names |-> p.post[1].Comments[1]]
                       ELSE [line |-> "error getting comments", url |-> p.url])]
    /\ UNCHANGED <<requestVars, fetchCall, reader, monitor, shelf>>

\* second loop: the header with the post id and one line per name, or the
\* failure marker with the url
PrintComments ==
    /\ report.pc = "comments"
    /\ Len(report.comments) < Len(report.results)
    /\ LET p == report.results[Len(report.comments) + 1]
       IN report' = [report EXCEPT !.comments = Append(@,
                       IF p.success /\ p.post[1].Comments # <<>>
                       THEN [line |-> "commented", id |-> p.post[1].PostId,
                             names |-> p.post[1].Comments[1]]
                       ELSE [line |-> "error getting comments", url |-> p.url])]
    /\ UNCHANGED <<requestVars, fetchCall, reader, monitor, shelf>>

PrintCommentsDone ==
    /\ report.pc = "comments"
    /\ Len(report.comments) >= Len(report.results)
    /\ report' = [report EXCEPT !.pc = "done"]
    /\ UNCHANGED <<requestVars, fetchCall, reader, monitor, shelf>>

NextReport == PrintPost \/ PrintPostsDone \/ PrintComments \/ PrintCommentsDone

SpecReport == InitReport /\ [][NextReport]_vars

\* ------------------------------------------------------------- readLines
\* The text of a file, as the lines bufio.Scanner yields: an address, a
\* blank line, or a line that is no well-formed address.
RECURSIVE FilesUpTo(_)
FilesUpTo(n) ==
    IF n = 0 THEN {<<>>}
    ELSE LET shorter == FilesUpTo(n - 1)
         IN shorter \cup {Append(l, a) : l \in {s \in shorter : Len(s) = n - 1},
                                         a \in Addresses \cup {""}}

InitLines ==
    /\ RequestOff
    /\ fetchCall = Off /\ report = Off /\ monitor = Off /\ shelf = Off
    /\ \E file \in FilesUpTo(MaxFileLines), opens \in BOOLEAN :
         reader = [pc |-> "open", file |-> file, opens |-> opens, pos |-> 0,
                   lines |-> <<>>, ret |-> <<>>, err |-> "nil"]

\* os.Open: on an error readLines returns nil and the error
ReadOpen ==
    /\ reader.pc = "open"
    /\ reader' = IF reader.opens THEN [reader EXCEPT !.pc = "scan"]
                 ELSE [reader EXCEPT !.pc = "done", !.err = "open file"]
    /\ UNCHANGED <<requestVars, fetchCall, report, monitor, shelf>>

\* mutant: a blank line is appended as well
ReadScanKeepsBlank ==
    /\ reader.pc = "scan"
    /\ reader.pos < Len(reader.file)
    /\ LET line == reader.file[reader.pos + 1]
       IN reader' = [reader EXCEPT !.pos = @ + 1,
                       !.lines = Append(@, Url(Len(@) + 1, line))]
    /\ UNCHANGED <<requestVars, fetchCall, report, monitor, shelf>>

\* one turn of the loop: scanner.Scan() yields the next line, which is
\* appended as Url{url: line} unless it is blank
ReadScan ==
    /\ reader.pc = "scan"
    /\ reader.pos < Len(reader.file)
    /\ LET line == reader.file[reader.pos + 1]
       IN reader' = [reader EXCEPT !.pos = @ + 1,
                       !.lines = IF line # "" THEN Append(@, Url(Len(@) + 1, line)) ELSE @]
    /\ UNCHANGED <<requestVars, fetchCall, report, monitor, shelf>>

\* scanner.Scan() stops on a read error: readLines returns nil and the error
ReadScanError ==
    /\ reader.pc = "scan"
    /\ reader.pos < Len(reader.file)
    /\ reader' = [reader EXCEPT !.pc = "done", !.err = "scanner error"]
    /\ UNCHANGED <<requestVars, fetchCall, report, monitor, shelf>>

\* end of file: return lines, nil
ReadReturn ==
    /\ reader.pc = "scan"
    /\ reader.pos >= Len(reader.file)
    /\ reader' = [reader EXCEPT !.pc = "done", !.ret = reader.lines]
    /\ UNCHANGED <<requestVars, fetchCall, report, monitor, shelf>>

NextLines == ReadOpen \/ ReadScan \/ ReadScanError \/ ReadReturn

SpecLines == InitLines /\ [][NextLines]_vars

\* ------------------------------------------- monitor: CollectAll and Save
MetricNames == {"latency_ms", "error_rate"}
MetricValues == {1, 2}
Times == {1, 2}

\* what one Collector returns: a map of metric name -> value and an error;
\* the interface lets a collector return a map along with an error
CollectorResults ==
    {[m |-> m, err |-> e] :
       m \in UNION {[S -> MetricValues] : S \in SUBSET MetricNames}, e \in {"nil", "failed"}}

RECURSIVE CollectorLists(_)
CollectorLists(n) ==
    IF n = 0 THEN {<<>>}
    ELSE LET shorter == CollectorLists(n - 1)
         IN shorter \cup {Append(l, c) : l \in {s \in shorter : Len(s) = n - 1},
                                         c \in CollectorResults}

Metric(name, val, ts) == [Name |-> name, Value |-> val, Timestamp |-> ts]

NewSnapshot(ts) == [CollectedAt |-> ts, Metrics |-> <<>>]

\* the body of the loop over colls: a failing collector is logged and
\* skipped, every entry of the others is stored under its name
CollectOne(snap, c) ==
    IF c.err # "nil" THEN snap
    ELSE [snap EXCEPT !.Metrics =
            [name \in DOMAIN snap.Metrics \cup DOMAIN c.m |->
               IF name \in DOMAIN c.m THEN Metric(name, c.m[name], snap.CollectedAt)
               ELSE snap.Metrics[name]]]

RECURSIVE CollectInto(_, _)
CollectInto(snap, colls) ==
    IF colls = <<>> THEN snap
    ELSE CollectInto(CollectOne(snap, Head(colls)), Tail(colls))

\* mutant: the first failing collector ends the collection with its error
RECURSIVE CollectAllStopsAtError(_, _)
CollectAllStopsAtError(colls, now) ==
    IF colls = <<>> THEN [snap |-> NewSnapshot(now), err |-> "nil"]
    ELSE LET rest == CollectAllStopsAtError(SubSeq(colls, 1, Len(colls) - 1), now)
             c == colls[Len(colls)]
         IN IF rest.err # "nil" THEN rest
            ELSE IF c.err # "nil" THEN [snap |-> rest.snap, err |-> c.err]
            ELSE [snap |-> CollectOne(rest.snap, c), err |-> "nil"]

CollectAll(colls, now) ==
    [snap |-> CollectInto(NewSnapshot(now), colls), err |-> "nil"]

\* a row of the metrics table that an earlier Save committed
EarlierRow == [ts |-> 0, name |-> "latency_ms", value |-> 1]

\* table: the committed rows; txRows: the rows written in the open
\* transaction, which only the saving connection sees
InitMonitor ==
    /\ RequestOff
    /\ fetchCall = Off /\ report = Off /\ reader = Off /\ shelf = Off
    /\ \E colls \in CollectorLists(MaxCollectors), now \in Times :
         monitor = [pc |-> "collect", colls |-> colls, now |-> now,
                    snap |-> NewSnapshot(now), collectErr |-> "nil",
                    table |-> <<EarlierRow>>, txOpen |-> FALSE, txRows |-> <<>>,
                    todo |-> {}, ret |-> "nil"]

\* snapshot, err := collector.CollectAll(...); main goes on to Save when err
\* is nil
CollectAllCall ==
    /\ monitor.pc = "collect"
    /\ LET r == CollectAll(monitor.colls, monitor.now)
       IN monitor' = [monitor EXCEPT !.snap = r.snap, !.collectErr = r.err,
                        !.pc = IF r.err = "nil" THEN "begin" ELSE "returned"]
    /\ UNCHANGED <<requestVars, fetchCall, report, reader, shelf>>

\* s.db.BeginTx
SaveBegin ==
    /\ monitor.pc = "begin"
    /\ \/ monitor' = [monitor EXCEPT !.pc = "prepare", !.txOpen = TRUE]
       \/ monitor' = [monitor EXCEPT !.pc = "returned", !.ret = "begin tx"]
    /\ UNCHANGED <<requestVars, fetchCall, report, reader, shelf>>

\* tx.PrepareContext; on an error the transaction is rolled back
SavePrepare ==
    /\ monitor.pc = "prepare"
    /\ \/ monitor' = [monitor EXCEPT !.pc = "insert", !.todo = DOMAIN monitor.snap.Metrics]
       \/ monitor' = [monitor EXCEPT !.pc = "returned", !.ret = "prepare insert",
                                     !.txOpen = FALSE, !.txRows = <<>>]
    /\ UNCHANGED <<requestVars, fetchCall, report, reader, shelf>>

\* mutant: every insert is committed on its own
SaveInsertAutocommit ==
    /\ monitor.pc = "insert"
    /\ \E name \in monitor.todo :
         \/ monitor' = [monitor EXCEPT
                          !.table = Append(@, [ts |-> monitor.snap.CollectedAt, name |-> name,
                                               value |-> monitor.snap.Metrics[name].Value]),
                          !.todo = @ \ {name}]
         \/ monitor' = [monitor EXCEPT !.pc = "returned", !.ret = "exec insert",
                                       !.txOpen = FALSE, !.txRows = <<>>]
    /\ UNCHANGED <<requestVars, fetchCall, report, reader, shelf>>

\* one turn of the loop over snap.Metrics, in the order the map yields:
\* the row is written in the transaction, or the insert fails and the
\* transaction is rolled back
SaveInsert ==
    /\ monitor.pc = "insert"
    /\ \E name \in monitor.todo :
         \/ monitor' = [monitor EXCEPT
                          !.txRows = Append(@, [ts |-> monitor.snap.CollectedAt, name |-> name,
                                                value |-> monitor.snap.Metrics[name].Value]),
                          !.todo = @ \ {name}]
         \/ monitor' = [monitor EXCEPT !.pc = "returned", !.ret = "exec insert",
                                       !.txOpen = FALSE, !.txRows = <<>>]
    /\ UNCHANGED <<requestVars, fetchCall, report, reader, shelf>>

\* tx.Commit: the rows become visible together; a failed commit is returned
\* without a rollback, and the database has then either rolled the
\* transaction back or left it open on the connection
SaveCommit ==
    /\ monitor.pc = "insert"
    /\ monitor.todo = {}
    /\ \/ monitor' = [monitor EXCEPT !.pc = "returned", !.txOpen = FALSE,
                                     !.table = @ \o monitor.txRows, !.txRows = <<>>]
       \/ monitor' = [monitor EXCEPT !.pc = "returned", !.ret = "commit tx",
                                     !.txOpen = FALSE, !.txRows = <<>>]
       \/ monitor' = [monitor EXCEPT !.pc = "returned", !.ret = "commit tx"]
    /\ UNCHANGED <<requestVars, fetchCall, report, reader, shelf>>

NextMonitor == CollectAllCall \/ SaveBegin \/ SavePrepare \/ SaveInsert \/ SaveCommit

SpecMonitor == InitMonitor /\ [][NextMonitor]_vars

\* ------------------------------------------------ books: AppendNewBooks
\* Book, by the two fields that tell one entry from another with the same Id
Books == {[Id |-> id, Title |-> t] : id \in {"1", "2"}, t \in {"x", "y"}}

RECURSIVE BookLists(_)
BookLists(n) ==
    IF n = 0 THEN {<<>>}
    ELSE LET shorter == BookLists(n - 1)
         IN shorter \cup {Append(l, b) : l \in {s \in shorter : Len(s) = n - 1}, b \in Books}

Ids(books) == {books[k].Id : k \in 1..Len(books)}

\* mutant: the Id of an appended book is not added to existing
RECURSIVE AppendLoopNoMark(_, _, _)
AppendLoopNoMark(books, existing, newBooks) ==
    IF newBooks = <<>> THEN books
    ELSE LET nb == Head(newBooks)
         IN IF nb.Id \notin existing
            THEN AppendLoopNoMark(Append(books, nb), existing, Tail(newBooks))
            ELSE AppendLoopNoMark(books, existing, Tail(newBooks))

AppendNewBooksNoMark(books, newBooks) == AppendLoopNoMark(books, Ids(books), newBooks)

\* the loop over newBooks: a book whose Id is not in existing is appended
\* and its Id added to existing
RECURSIVE AppendLoop(_, _, _)
AppendLoop(books, existing, newBooks) ==
    IF newBooks = <<>> THEN books
    ELSE LET nb == Head(newBooks)
         IN IF nb.Id \notin existing
            THEN AppendLoop(Append(books, nb), existing \cup {nb.Id}, Tail(newBooks))
            ELSE AppendLoop(books, existing, Tail(newBooks))

AppendNewBooks(books, newBooks) == AppendLoop(books, Ids(books), newBooks)

\* books.json as the server finds it; no request handled yet
InitBooks ==
    /\ RequestOff
    /\ fetchCall = Off /\ report = Off /\ reader = Off /\ monitor = Off
    /\ \E file \in BookLists(MaxBooks) :
         shelf = [file |-> file, adds |-> 0, body |-> <<>>, books |-> <<>>,
                  result |-> <<>>, first |-> <<>>, status |-> 0]

\* the POST branch of handleAddBook for a body that was read: getBooks (its
\* error is dropped, leaving books nil), AppendNewBooks, saveBooks
AddBooks(newBooks) ==
    \E loaded, saved \in BOOLEAN :
        LET books == IF loaded THEN shelf.file ELSE <<>>
            result == AppendNewBooks(books, newBooks)
        IN shelf' = [shelf EXCEPT
                       !.adds = @ + 1, !.body = newBooks, !.books = books,
                       !.result = result,
                       !.first = IF shelf.adds = 0 THEN result ELSE @,
                       !.file = IF saved THEN result ELSE @,
                       !.status = IF saved THEN 200 ELSE 500]

\* a first request to /add
HandleAddBook ==
    /\ shelf.adds = 0
    /\ \E newBooks \in BookLists(MaxBooks) : AddBooks(newBooks)
    /\ UNCHANGED <<requestVars, fetchCall, report, reader, monitor>>

\* the same request sent once more
HandleAddBookAgain ==
    /\ shelf.adds = 1
    /\ shelf.status \in {200, 500}
    /\ AddBooks(shelf.body)
    /\ UNCHANGED <<requestVars, fetchCall, report, reader, monitor>>

\* a request that is no POST (405) or whose body cannot be read (400)
HandleAddBookRefused ==
    /\ shelf.adds = 0
    /\ \E code \in {405, 400} : shelf' = [shelf EXCEPT !.adds = 1, !.status = code]
    /\ UNCHANGED <<requestVars, fetchCall, report, reader, monitor>>

NextBooks == HandleAddBook \/ HandleAddBookAgain \/ HandleAddBookRefused

SpecBooks == InitBooks /\ [][NextBooks]_vars

\* ---------------------------------------------------------------- helpers
\* flag values and files that main rejects before starting anything
Rejected == ~absPath \/ nw < 0 \/ ~readOk

\* main never calls close(jobs): the channel stays open for the whole run,
\* so no worker ever leaves its range loop at the loop head
jobsClosed == FALSE

\* descriptors sent to resps so far, in the order they were sent
Forwarded == results \o resps

\* items forwarded by the ctx.Done() case
ViaCancel == {u[w].id : w \in {x \in Workers : wpc[x] = "stopped"}}

Occurrences(seq, k) == Cardinality({j \in 1..Len(seq) : seq[j].id = k})

\* how many copies of item k exist: not yet fed, in jobs, held by a worker,
\* in resps, in results
Copies(k) ==
    (IF k > fed THEN 1 ELSE 0)
    + Occurrences(jobs, k)
    + Cardinality({w \in InFlight : u[w].id = k})
    + Occurrences(resps, k)
    + Occurrences(results, k)

\* every descriptor that exists somewhere in the system
Everywhere ==
    {jobs[j] : j \in 1..Len(jobs)} \cup {u[w] : w \in InFlight}
    \cup {resps[j] : j \in 1..Len(resps)} \cup {results[j] : j \in 1..Len(results)}

\* main is through: it has received each submitted item exactly once
RunEndedComplete ==
    /\ mainPc = "done"
    /\ Len(results) = numJobs
    /\ \A k \in 1..numJobs : Occurrences(results, k) = 1
    /\ \A j \in 1..Len(results) : results[j].url = lines[results[j].id]

PrimaryFailed(k) == postRet[k] # <<>> /\ postRet[k][1].err # "nil"
PrimaryOk(k) == postRet[k] # <<>> /\ postRet[k][1].err = "nil"
DependentFailed(k) == commRet[k] # <<>> /\ commRet[k][1].err # "nil"
DependentOk(k) == commRet[k] # <<>> /\ commRet[k][1].err = "nil"

\* a step of the program itself: of main, of a worker or of a fetch
\* goroutine (everything but the cancellation of ctx by its owner)
ProgramStep ==
    \/ Main
    \/ \E w \in Workers : Worker(w)
    \/ \E w \in Workers : FetchPostReturn(w)
    \/ \E w \in Workers : FetchCommReturn(w)
    \/ FetchAbandonedReturn

\* no goroutine can take a step: the state in which a run ends or hangs
AtRest == ~ENABLED ProgramStep

RECURSIVE SumOver(_, _)
SumOver(f, n) == IF n = 0 THEN 0 ELSE f[n] + SumOver(f, n - 1)

\* Work still ahead: what main has left to do, the stages every descriptor
\* has left to pass (not fed, jobs, held, resps, results), the fetches that
\* have not returned, and the cancellation that has not happened.  Every
\* step lowers it, so no run goes on forever.
Rank ==
    (CASE mainPc = "flags" -> 5 [] mainPc = "spawn" -> 4 [] mainPc = "feed" -> 3
       [] mainPc = "recv" -> 2 [] mainPc = "present" -> 1 [] OTHER -> 0)
    + (IF nw > spawned THEN nw - spawned ELSE 0)
    + 10 * (numJobs - fed) + 9 * Len(jobs) + 2 * Len(resps) + Len(results)
    + SumOver([w \in Workers |->
                 (IF w \in InFlight THEN 6 - i[w] ELSE 0)
                 + (IF fpost[w] = "running" THEN 1 ELSE 0)
                 + (IF fcomm[w] = "running" THEN 1 ELSE 0)], MaxWorkers)
    + abandoned
    + (IF ctxCancellable /\ ~cancelled THEN 1 ELSE 0)

\* worker w sends its descriptor to resps in this step
Forwards(w) == wpc[w] = "select" /\ wpc'[w] # "select"

\* ----------------------------------------------------------------- claims
\* C1: conservation of items.  In every reachable state, cancelled or not,
\* each submitted descriptor exists exactly once among: not yet fed, in
\* jobs, held by a worker, in resps, in results; every copy still carries
\* the address of its line; hence none is sent to resps twice and none
\* that was dequeued is dropped.
C1_Conservation ==
    /\ \A k \in 1..numJobs : Copies(k) = 1
    /\ \A d \in Everywhere : d.id \in 1..numJobs /\ d.url = lines[d.id]

\* a cancelled run over two equal addresses: one copy received, one still
\* held by a worker
C1_Witness ==
    /\ cancelled
    /\ numJobs = 2 /\ lines[1] = lines[2]
    /\ Len(results) = 1
    /\ \E w \in InFlight : u[w].id # results[1].id

\* C2 as stated: for every worker count 0 <= N <= M and no cancellation,
\* the run ends with the Dispatcher having received every submitted item
\* exactly once: whenever the program has come to rest, uncancelled, main
\* is through with each item received once.
C2_Original ==
    ~cancelled /\ ~Rejected /\ nw <= numJobs /\ AtRest => RunEndedComplete

\* C2 amended: the same for 1 <= N <= M, or M = 0.  No run goes on forever
\* (every step lowers Rank), and it can come to rest only with main through
\* and each item received once.
C2_EndsComplete ==
    /\ [](~cancelled /\ ~Rejected /\ nw <= numJobs /\ (nw >= 1 \/ numJobs = 0) /\ AtRest
            => RunEndedComplete)
    /\ [][~cancelled' => Rank' < Rank]_vars

C2_Witness ==
    /\ RunEndedComplete
    /\ AtRest
    /\ ~cancelled
    /\ nw >= 1 /\ nw <= numJobs /\ numJobs >= 2

\* C3 as stated: for every N >= 1, once the cancellation signal has fired
\* the Dispatcher still receives one outcome for each of the M items and
\* reaches presentation: a cancelled run comes to rest only with main
\* through and M outcomes received.
C3_CancelDeliversAll ==
    cancelled /\ ~Rejected /\ nw >= 1 /\ AtRest
        => mainPc = "done" /\ Len(results) = numJobs

\* C4: per-item failure never aborts the batch.  For N >= 1 (also N > M)
\* and no cancellation, whatever the fetches return: no run goes on forever
\* (every step lowers Rank) and it comes to rest only with all M outcomes
\* received and presentation finished; no worker stops and main does not
\* panic because of a fetch error.
C4_FailureNeverAborts ==
    /\ [](~cancelled /\ ~Rejected /\ nw >= 1 /\ AtRest
            => mainPc = "done" /\ Len(results) = numJobs)
    /\ [](\A w \in Workers : wpc[w] = "stopped" => cancelled)
    /\ [](mainPc = "panic" => Rejected)
    /\ [][~cancelled' /\ nw >= 1 => Rank' < Rank]_vars

\* more workers than items, a failed primary and a failed dependent fetch
C4_Witness ==
    /\ mainPc = "done"
    /\ AtRest
    /\ ~cancelled
    /\ nw > numJobs /\ numJobs >= 1
    /\ \E k \in 1..numJobs : PrimaryFailed(k) \/ (PrimaryOk(k) /\ DependentFailed(k))

\* C5: a forwarded descriptor whose primary fetch failed has success ==
\* false and no post, whatever the dependent fetch did; so has every
\* descriptor forwarded by the ctx.Done() case, whatever its fetches did.
C5_PrimaryFailure ==
    \A j \in 1..Len(Forwarded) :
        PrimaryFailed(Forwarded[j].id) \/ Forwarded[j].id \in ViaCancel =>
            ~Forwarded[j].success /\ Forwarded[j].post = <<>>

\* primary failed (status 500), dependent succeeded, not cancelled
C5_Witness ==
    \E j \in 1..Len(results) :
        /\ results[j].id \notin ViaCancel
        /\ results[j].url = GoodAddr
        /\ PrimaryFailed(results[j].id)
        /\ DependentOk(results[j].id)
        /\ ~results[j].success

\* C6 as stated: a forwarded, not cancelled descriptor whose primary fetch
\* succeeded and whose dependent fetch failed has success == true, post set
\* to the primary payload, and no Comments.
C6_DependentFailure ==
    \A j \in 1..Len(Forwarded) :
        LET d == Forwarded[j]
        IN d.id \notin ViaCancel /\ PrimaryOk(d.id) /\ DependentFailed(d.id) =>
             /\ d.success
             /\ d.post # <<>>
             /\ d.post[1].PostId = postRet[d.id][1].post[1].PostId
             /\ d.post[1].Title = postRet[d.id][1].post[1].Title
             /\ d.post[1].Comments = <<>>

\* C7: a forwarded, not cancelled descriptor whose two fetches succeeded
\* has success == true and post.Comments pointing to exactly the sequence
\* fetchComments returned (an empty sequence stays a non-nil pointer).
C7_BothSucceed ==
    \A j \in 1..Len(Forwarded) :
        LET d == Forwarded[j]
        IN d.id \notin ViaCancel /\ PrimaryOk(d.id) /\ DependentOk(d.id) =>
             /\ d.success
             /\ d.post # <<>>
             /\ d.post[1].Comments # <<>>
             /\ d.post[1].Comments = commRet[d.id][1].comments

\* one received descriptor with two names in order and, on another server,
\* one with an empty list
C7_Witness ==
    \E j \in 1..Len(results) :
        /\ results[j].id \notin ViaCancel
        /\ PrimaryOk(results[j].id) /\ DependentOk(results[j].id)
        /\ results[j].post # <<>>
        /\ results[j].post[1].Comments \in { << <<"Alice", "Bob">> >>, << <<>> >> }
        /\ server \in {"embed", "empty"}

\* C8: data-model invariant.  Every descriptor anywhere (jobs, a worker,
\* resps, results) with success == true has a post; Comments is a field of
\* the post and so exists only with it; hence presentation never panics.
C8_DataModel ==
    /\ \A d \in Everywhere : d.success => d.post # <<>>
    /\ mainPc = "panic" => Rejected

C8_Witness ==
    /\ mainPc = "done"
    /\ \E j \in 1..Len(results) : results[j].success /\ results[j].post # <<>>
    /\ \E j \in 1..Len(results) : ~results[j].success

\* C9: no deadlock on cancellation.  Once the signal has fired, a worker
\* inside its select loop is never blocked: whether or not its fetches have
\* returned it can take the ctx.Done() case (or, with both outcomes already
\* received, go on to send); and the step by which it leaves the loop sends
\* exactly the descriptor it holds to resps.
C9_NoDeadlockOnCancel ==
    /\ [](\A w \in Workers :
            cancelled /\ wpc[w] = "select" =>
              IF i[w] < 2 THEN ENABLED WorkerCancelled(w) ELSE ENABLED WorkerFinish(w))
    /\ [][\A w \in Workers :
            cancelled /\ Forwards(w) =>
              /\ Len(resps') = Len(resps) + 1
              /\ resps'[Len(resps')].id = u[w].id]_vars

\* a worker returned through the ctx.Done() case while both fetches are
\* still outstanding
C9_Witness ==
    \E w \in Workers :
        /\ wpc[w] = "stopped"
        /\ nw = 1 /\ abandoned = 2
        /\ Occurrences(Forwarded, u[w].id) = 1

C11_StoppedOnlyWhenDrained ==
    /\ [](\A w \in Workers : wpc[w] = "stopped" => jobsClosed /\ jobs = <<>>)
    /\ [][\A w \in Workers :
            wpc'[w] # wpc[w] =>
              \/ wpc[w] = "unstarted" /\ wpc'[w] = "idle"
              \/ wpc[w] = "idle" /\ wpc'[w] = "select" /\ jobs' = Tail(jobs)
              \/ wpc[w] = "select" /\ wpc'[w] = "idle" /\ Len(resps') = Len(resps) + 1
              \/ wpc[w] = "idle" /\ wpc'[w] = "stopped" /\ jobsClosed /\ jobs = <<>>]_vars
    /\ [][\A w \in Workers : wpc[w] = "stopped" => wpc'[w] = "stopped"]_vars

\* C12: with nw = 0 and at least one line the flags are accepted, main
\* sends every descriptor to jobs, none ever leaves jobs, and main comes to
\* rest only in its first <-resps, with nothing received and nothing
\* presented; with nw < 0 main panics before it starts a worker or sends
\* anything.
C12_ZeroWorkersHang ==
    /\ nw = 0 /\ ~Rejected /\ numJobs >= 1 =>
          /\ mainPc \in {"flags", "spawn", "feed", "recv"}
          /\ Len(jobs) = fed
          /\ \A k \in 1..fed : jobs[k] = Url(k, lines[k])
          /\ resps = <<>> /\ results = <<>>
          /\ \A w \in Workers : wpc[w] = "unstarted"
          /\ (AtRest => mainPc = "recv" /\ fed = numJobs)
    /\ nw < 0 =>
          /\ mainPc \in {"flags", "panic"}
          /\ spawned = 0 /\ fed = 0 /\ jobs = <<>>
          /\ \A w \in Workers : wpc[w] = "unstarted"

\* two lines, no worker: main at rest in its first receive, both
\* descriptors still in jobs
C12_Witness ==
    /\ nw = 0 /\ ~Rejected
    /\ numJobs = 2
    /\ AtRest
    /\ mainPc = "recv" /\ Len(jobs) = 2 /\ results = <<>>

\* C13: a worker holds at most one descriptor and takes the next one only
\* after it has forwarded the one before.  The descriptors taken out of jobs
\* and not yet sent to resps are exactly those held by the workers in their
\* select loop, one each and all different, so at most nw are in flight; a
\* worker that is not in its select loop holds nothing it has not sent.
C13_OneDescriptorPerWorker ==
    /\ (fed - Len(jobs)) - Len(Forwarded) = Cardinality(InFlight)
    /\ Cardinality(InFlight) <= (IF nw > 0 THEN nw ELSE 0)
    /\ \A w \in InFlight :
          /\ u[w].id \in 1..fed
          /\ Occurrences(Forwarded, u[w].id) = 0
          /\ \A x \in InFlight : x # w => u[x].id # u[w].id
    /\ \A w \in Workers \ InFlight :
          u[w] = NoUrl \/ Occurrences(Forwarded, u[w].id) = 1

\* one worker, two lines: the worker is busy with the first descriptor
\* while the second waits in jobs
C13_Witness ==
    /\ nw = 1 /\ numJobs = 2 /\ fed = 2
    /\ InFlight = {1} /\ u[1].id = 1
    /\ Len(jobs) = 1 /\ Forwarded = <<>>

\* C14: every descriptor is taken from jobs by exactly one worker; success
\* and post are written only by the task of the worker that holds it, in
\* the step that forwards it; no two workers hold the same descriptor; and
\* a descriptor that is in resps or in results never changes again.
C14_SingleWriter ==
    /\ [](\A w \in InFlight : \A x \in InFlight : x # w => u[x].id # u[w].id)
    /\ [](\A j \in 1..Len(jobs) : jobs[j] = Url(jobs[j].id, jobs[j].url))
    /\ [](\A w \in InFlight : u[w] = Url(u[w].id, u[w].url))
    /\ [][jobs' # jobs /\ Len(jobs') < Len(jobs) =>
            \E w \in Workers :
              /\ wpc[w] = "idle" /\ u'[w] = Head(jobs)
              /\ \A x \in Workers \ {w} : u'[x] = u[x] /\ wpc'[x] = wpc[x]]_vars
    /\ [][\A j \in 1..Len(Forwarded) : Forwarded'[j] = Forwarded[j]]_vars
    /\ [][Forwarded' # Forwarded =>
            \E w \in Workers :
              /\ Forwards(w)
              /\ Len(Forwarded') = Len(Forwarded) + 1
              /\ Forwarded'[Len(Forwarded')].id = u[w].id
              /\ Forwarded'[Len(Forwarded')].url = u[w].url]_vars

\* two workers, two lines: one descriptor is already received with its
\* fields written, the other is still held, unwritten, by the other worker
C14_Witness ==
    /\ nw = 2 /\ numJobs = 2
    /\ Len(results) = 1 /\ results[1].success /\ results[1].post # <<>>
    /\ \E w \in InFlight : u[w].id # results[1].id /\ ~u[w].success

\* C15: no producer blocks on a full queue.  jobs and resps have capacity
\* numJobs; in every reachable state, for every nw >= 0, cancelled or not,
\* each holds at most numJobs descriptors, jobs has room whenever main is
\* about to send to it, and resps has room whenever a worker is about to
\* send to it (after both outcomes, or in the ctx.Done() case).
C15_NoProducerBlocks ==
    /\ Len(jobs) <= numJobs
    /\ Len(resps) <= numJobs
    /\ (mainPc = "feed" /\ fed < numJobs => Len(jobs) < numJobs)
    /\ \A w \in InFlight : Len(resps) < numJobs

\* main has sent both descriptors without a receiver having taken one:
\* jobs is filled to its capacity
C15_Witness ==
    /\ numJobs = 2 /\ nw >= 1
    /\ Len(jobs) = 2
    /\ mainPc = "recv"

\* C16: main starts the workers, then sends all numJobs descriptors, then
\* receives from resps exactly numJobs times.  Nothing is sent before the
\* pool is started, nothing is received before everything is sent, the
\* printing loops start only after the last receive, over exactly numJobs
\* results, and main never tries to receive once it has numJobs results.
\* (A run in which fewer than numJobs descriptors are ever sent to resps
\* stays in the receive loop and never prints.)
C16_ExactlyMReceives ==
    /\ Len(results) <= numJobs
    /\ (fed > 0 => mainPc \notin {"flags", "spawn"} /\ spawned = nw)
    /\ (mainPc = "recv" => fed = numJobs /\ spawned = nw)
    /\ (results # <<>> => fed = numJobs /\ mainPc \notin {"flags", "spawn", "feed"})
    /\ (mainPc \in {"present", "done"} => Len(results) = numJobs /\ fed = numJobs)
    /\ (mainPc = "panic" => Rejected /\ results = <<>>)
    /\ (Len(results) >= numJobs => ~ENABLED MainRecv)

\* two lines, two workers: main has received twice, resps is empty, and
\* main is through with the printing loops
C16_Witness ==
    /\ mainPc = "done"
    /\ numJobs = 2 /\ Len(results) = 2
    /\ nw = 2 /\ resps = <<>>

\* a server is a deterministic stub when it has one response to a primary
\* and one to a dependent request; the outcome of a fetch is then a
\* function of the address and of the kind of fetch
Deterministic(srv) ==
    Cardinality(PostResponses(srv)) = 1 /\ Cardinality(CommentsResponses(srv)) = 1

\* the descriptor the stub's answers make of line k
StubOutcome(k) ==
    ApplyResults(Url(k, lines[k]),
                 fetchPost(lines[k], CHOOSE r \in PostResponses(server) : TRUE),
                 fetchComments(lines[k], CHOOSE r \in CommentsResponses(server) : TRUE))

\* C17: determinism modulo order.  Against a deterministic stub and without
\* cancellation, for every nw >= 1 and every interleaving, each descriptor
\* sent to resps is the one the stub's answers make of its line, and when
\* main prints, results holds exactly one such descriptor per line: every
\* run over the same lines ends with the same multiset of descriptors.
C17_DeterministicModuloOrder ==
    Deterministic(server) /\ ~cancelled /\ nw >= 1 =>
        /\ \A j \in 1..Len(Forwarded) :
              /\ Forwarded[j].id \in 1..numJobs
              /\ Forwarded[j] = StubOutcome(Forwarded[j].id)
        /\ (mainPc \in {"present", "done"} =>
              \A k \in 1..numJobs : Occurrences(results, k) = 1)

\* two workers, a good and a bad address: the run ended with the second
\* line's descriptor received first
C17_Witness ==
    /\ Deterministic(server) /\ ~cancelled
    /\ nw = 2 /\ lines = <<GoodAddr, BadAddr>>
    /\ mainPc = "done"
    /\ results[1].id = 2 /\ ~results[1].success
    /\ results[2].id = 1 /\ results[2].success

\* C18: within one task both fetches are started before either outcome is
\* awaited: the step that takes a descriptor leaves both goroutines running
\* and nothing received.  The outcomes may then arrive in either order, and
\* the descriptor a task forwards after both is the merge of what the two
\* fetches returned, whichever was received first.
C18_FetchesConcurrent ==
    /\ [][\A w \in Workers :
            wpc[w] = "idle" /\ wpc'[w] = "select" =>
              /\ fpost'[w] = "running" /\ fcomm'[w] = "running"
              /\ i'[w] = 0 /\ postCh'[w] = <<>> /\ commCh'[w] = <<>>]_vars
    /\ [][\A w \in Workers :
            Forwards(w) /\ i[w] = 2 =>
              /\ postRet[u[w].id] # <<>> /\ commRet[u[w].id] # <<>>
              /\ resps'[Len(resps')] =
                   ApplyResults(u[w], postRet[u[w].id][1], commRet[u[w].id][1])]_vars

\* two tasks, each with one outcome received and the other fetch still
\* running: one got its post first, the other its comments first
C18_Witness ==
    /\ InFlight = {1, 2}
    /\ i[1] = 1 /\ fpost[1] = "done" /\ postCh[1] = <<>> /\ fcomm[1] = "running"
    /\ i[2] = 1 /\ fcomm[2] = "done" /\ commCh[2] = <<>> /\ fpost[2] = "running"
    /\ pr[1].err = "nil" /\ pr[1].post # <<>>

\* what the task of worker w has received so far: 1 for the post once its
\* fetch has returned and postCh is empty again, 1 likewise for the comments
Received(w) ==
    (IF fpost[w] = "done" /\ postCh[w] = <<>> THEN 1 ELSE 0)
    + (IF fcomm[w] = "done" /\ commCh[w] = <<>> THEN 1 ELSE 0)

\* C19: a task forwards its descriptor only after (a) it has received the
\* outcome of both fetches, each exactly once, or (b) ctx has been
\* cancelled; only in case (a) is the forwarded descriptor the merged one,
\* in case (b) it is the descriptor as it was dequeued.
C19_ForwardAfterBothOrCancel ==
    /\ [](\A w \in InFlight : i[w] = Received(w) /\ i[w] <= 2)
    /\ [][\A w \in Workers :
            Forwards(w) =>
              \/ i[w] = 2 /\ Received(w) = 2
                   /\ resps'[Len(resps')] = ApplyResults(u[w], pr[w], cr[w])
              \/ i[w] < 2 /\ cancelled /\ resps'[Len(resps')] = u[w]]_vars

\* a cancelled run with both cases: one descriptor forwarded merged after
\* both outcomes, the other forwarded as dequeued by the ctx.Done() case
C19_Witness ==
    /\ cancelled
    /\ Len(Forwarded) = 2
    /\ Forwarded[1].success /\ Forwarded[1].id \notin ViaCancel
    /\ Forwarded[2].id \in ViaCancel /\ Forwarded[2] = Url(Forwarded[2].id, GoodAddr)

\* the fetch goroutines of worker w that have not returned
Running(w) ==
    (IF fpost[w] = "running" THEN 1 ELSE 0) + (IF fcomm[w] = "running" THEN 1 ELSE 0)

FetchErrors == {"new request", "http do", "unexpected status", "json decode"}

\* the stage at which a fetch of url against a response ends
FetchStage(url, transportOk, status, decodes) ==
    IF url = BadAddr THEN "new request"
    ELSE IF ~transportOk THEN "http do"
    ELSE IF status # StatusOK THEN "unexpected status"
    ELSE IF ~decodes THEN "json decode"
    ELSE "nil"

\* C21: each fetch returns exactly one of a decoded value, a request
\* construction error, a transport error, a status error, a decode error,
\* checked in that order and told apart by their message; a value only when
\* the request was built, the transport succeeded, the status was 200 and
\* the body decoded; a status other than 200 gives the status error also
\* when the body would decode.
C21_FetchOutcome ==
    fetchCall.pc = "on" =>
      /\ fetchCall.post # <<>> =>
            LET o == fetchCall.post[1]
                r == fetchCall.postResp
            IN /\ o.err \in FetchErrors \cup {"nil"}
               /\ (o.err = "nil") = (o.post # <<>>)
               /\ o.err = FetchStage(fetchCall.url, r.transportOk, r.status, r.body.valid)
               /\ (o.err = "nil" =>
                     /\ o.post[1].PostId = r.body.id
                     /\ o.post[1].Title = r.body.title)
      /\ fetchCall.comments # <<>> =>
            LET o == fetchCall.comments[1]
                r == fetchCall.commResp
            IN /\ o.err \in FetchErrors \cup {"nil"}
               /\ (o.err = "nil") = (o.comments # <<>>)
               /\ o.err = FetchStage(fetchCall.url, r.transportOk, r.status, r.valid)
               /\ (o.err = "nil" => o.comments[1] = r.names)

\* status 500 with a body that would decode: both fetches return the
\* status error
C21_Witness ==
    /\ fetchCall.pc = "on"
    /\ fetchCall.url = GoodAddr
    /\ fetchCall.postResp = [transportOk |-> TRUE, status |-> 500, body |-> PlainBody]
    /\ fetchCall.commResp.status = 404 /\ fetchCall.commResp.valid
    /\ fetchCall.commResp.transportOk
    /\ fetchCall.post = <<[post |-> <<>>, err |-> "unexpected status"]>>
    /\ fetchCall.comments = <<[comments |-> <<>>, err |-> "unexpected status"]>>

\* the scenario: A succeeded with one comment, B failed with status 500, C
\* succeeded with an empty list
Scenario ==
    << [id |-> 1, url |-> 1, success |-> TRUE,
        post |-> <<[PostId |-> 1, Title |-> "t", Comments |-> << <<"Alice">> >>]>>],
       [id |-> 2, url |-> 2, success |-> FALSE, post |-> <<>>],
       [id |-> 3, url |-> 3, success |-> TRUE,
        post |-> <<[PostId |-> 3, Title |-> "t", Comments |-> << <<>> >>]>>] >>

\* C22: report mapping.  When main is through, the first section has one
\* entry per received descriptor, in order: id and title iff success,
\* otherwise the failure marker with the address.  The second section
\* lists the names of the comments, in order, exactly for the descriptors
\* with success and a list attached, an empty list giving a header without
\* names, and a failure marker for every other descriptor.  For the
\* scenario: "Alice" under A, nothing under C, failure lines for B.
C22_ReportMapping ==
    report.pc = "done" =>
      /\ Len(report.posts) = Len(report.results)
      /\ Len(report.comments) = Len(report.results)
      /\ \A k \in 1..Len(report.results) :
            LET p == report.results[k]
            IN /\ (p.success <=> report.posts[k].line = "post")
               /\ (p.success =>
                     /\ report.posts[k].id = p.post[1].PostId
                     /\ report.posts[k].title = p.post[1].Title)
               /\ (~p.success =>
                     report.posts[k] = [line |-> "error getting post", url |-> p.url])
               /\ (report.comments[k].line = "commented" <=>
                     p.success /\ p.post[1].Comments # <<>>)
               /\ (report.comments[k].line = "commented" =>
                     /\ report.comments[k].names = p.post[1].Comments[1]
                     /\ report.comments[k].id = p.post[1].PostId)
               /\ (report.comments[k].line # "commented" =>
                     report.comments[k] = [line |-> "error getting comments", url |-> p.url])
      /\ (report.results = Scenario =>
            /\ report.comments[1].names = <<"Alice">>
            /\ report.comments[3].line = "commented" /\ report.comments[3].names = <<>>
            /\ report.posts[2].line = "error getting post"
            /\ report.comments[2].line = "error getting comments")

\* the scenario, printed
C22_Witness ==
    /\ report.pc = "done"
    /\ report.results = Scenario
    /\ Len(report.posts) = 3 /\ Len(report.comments) = 3

NonBlank(file) == SelectSeq(file, LAMBDA l : l # "")

\* C23: the line reader.  When readLines returns without an error, its
\* result has one descriptor per non-blank line of the file, in the order
\* of the file, each with the line as address, success false and no post;
\* no descriptor has a blank address, and a line that occurs several times
\* has as many descriptors.
C23_ReadLines ==
    reader.pc = "done" /\ reader.err = "nil" =>
      LET kept == NonBlank(reader.file)
      IN /\ Len(reader.ret) = Len(kept)
         /\ \A k \in 1..Len(kept) :
               /\ reader.ret[k].url = kept[k]
               /\ reader.ret[k].url # ""
               /\ ~reader.ret[k].success
               /\ reader.ret[k].post = <<>>
         /\ \A a \in Addresses :
               Cardinality({k \in 1..Len(reader.ret) : reader.ret[k].url = a})
                 = Cardinality({k \in 1..Len(reader.file) : reader.file[k] = a})

\* a file with a blank line between two equal lines has been read
C23_Witness ==
    /\ reader.pc = "done" /\ reader.err = "nil"
    /\ reader.file = <<GoodAddr, "", GoodAddr>>
    /\ Len(reader.ret) = 2

\* C24: startup errors are fatal before any work.  With a path that is not
\* absolute, a negative worker count or a list that cannot be read, main
\* does nothing but panic: no worker is started, no descriptor is sent to
\* jobs, no fetch is issued or has returned, and no descriptor, failed or
\* not, is forwarded or received; the run comes to rest only in the panic.
\* No other run panics.
C24_StartupErrorsFatal ==
    /\ Rejected =>
          /\ mainPc \in {"flags", "panic"}
          /\ spawned = 0 /\ \A w \in Workers : wpc[w] = "unstarted"
          /\ fed = 0 /\ jobs = <<>>
          /\ \A w \in Workers : fpost[w] = "none" /\ fcomm[w] = "none"
          /\ abandoned = 0
          /\ \A k \in 1..numJobs : postRet[k] = <<>> /\ commRet[k] = <<>>
          /\ Forwarded = <<>>
          /\ (mainPc # "panic" => ENABLED MainValidate)
    /\ ~Rejected => mainPc # "panic"

\* main has panicked over an unreadable list, with workers asked for and an
\* absolute path
C24_Witness ==
    /\ mainPc = "panic"
    /\ ~readOk /\ absPath /\ nw >= 1
    /\ spawned = 0 /\ Forwarded = <<>>

\* rows of the snapshot among the given rows of the table
SnapshotRows(rows) ==
    {k \in 1..Len(rows) : rows[k] # EarlierRow}

AllOrNone(rows) ==
    \/ SnapshotRows(rows) = {}
    \/ {[ts |-> rows[k].ts, name |-> rows[k].name, value |-> rows[k].value] : k \in SnapshotRows(rows)}
         = {[ts |-> monitor.snap.CollectedAt, name |-> n, value |-> monitor.snap.Metrics[n].Value] :
              n \in DOMAIN monitor.snap.Metrics}
       /\ Cardinality(SnapshotRows(rows)) = Cardinality(DOMAIN monitor.snap.Metrics)

\* C25: Save is atomic.  The committed rows of the metrics table never hold
\* only some of the snapshot's rows, while Save runs or after it; once Save
\* has returned the same is true of what the saving connection sees; a nil
\* return has all rows committed, a failed begin, prepare or insert none,
\* and the rows committed earlier stay.
C25_SaveAtomic ==
    /\ AllOrNone(monitor.table)
    /\ monitor.table # <<>> /\ monitor.table[1] = EarlierRow
    /\ monitor.pc = "returned" =>
          /\ AllOrNone(monitor.table \o monitor.txRows)
          /\ (monitor.ret = "nil" =>
                Cardinality(SnapshotRows(monitor.table)) = Cardinality(DOMAIN monitor.snap.Metrics))
          /\ (monitor.ret \in {"begin tx", "prepare insert", "exec insert"} =>
                SnapshotRows(monitor.table \o monitor.txRows) = {})

\* the second of two inserts has failed and Save has returned the error
C25_Witness ==
    /\ monitor.pc = "returned" /\ monitor.ret = "exec insert"
    /\ Cardinality(DOMAIN monitor.snap.Metrics) = 2
    /\ Cardinality(monitor.todo) = 1
    /\ monitor.table = <<EarlierRow>>

\* the collectors of the call that returned no error, in the order of the call
Healthy == SelectSeq(monitor.colls, LAMBDA c : c.err = "nil")

\* C26: CollectAll tolerates failing sources.  Whatever collectors fail,
\* CollectAll returns a nil error and a snapshot whose keys are exactly the
\* metric names returned by the collectors that did not fail; the entry of
\* a name carries the value of the last such collector that returned it,
\* so nothing a failing collector returned gets in; every entry has its key
\* as Name and the snapshot's CollectedAt as Timestamp.
C26_CollectAllTolerant ==
    monitor.pc # "collect" =>
      /\ monitor.collectErr = "nil"
      /\ monitor.snap.CollectedAt = monitor.now
      /\ DOMAIN monitor.snap.Metrics = UNION {DOMAIN Healthy[k].m : k \in 1..Len(Healthy)}
      /\ \A name \in DOMAIN monitor.snap.Metrics :
            LET e == monitor.snap.Metrics[name]
                reporters == {k \in 1..Len(Healthy) : name \in DOMAIN Healthy[k].m}
                last == CHOOSE k \in reporters : \A j \in reporters : j <= k
            IN /\ e.Name = name
               /\ e.Timestamp = monitor.snap.CollectedAt
               /\ e.Value = Healthy[last].m[name]

\* a failing collector that returned a metric, ahead of one that did not
\* fail and returned another: the snapshot holds the second one only
C26_Witness ==
    /\ monitor.pc # "collect"
    /\ Len(monitor.colls) = 2
    /\ monitor.colls[1].err # "nil" /\ DOMAIN monitor.colls[1].m = {"latency_ms"}
    /\ monitor.colls[2].err = "nil" /\ DOMAIN monitor.colls[2].m = {"error_rate"}
    /\ DOMAIN monitor.snap.Metrics = {"error_rate"}

Reorderings(seq) ==
    {[k \in 1..Len(seq) |-> seq[p[k]]] :
       p \in {q \in [1..Len(seq) -> 1..Len(seq)] : \A a, b \in 1..Len(seq) : q[a] = q[b] => a = b}}

\* C27 as stated: the order of collectors does not matter.  CollectAll over
\* any permutation of the list yields the metric names and values of the
\* snapshot that CollectAll returned for the list.
C27_OrderIrrelevant ==
    monitor.pc # "collect" =>
      \A colls \in Reorderings(monitor.colls) :
        LET other == CollectAll(colls, monitor.now).snap.Metrics
        IN /\ DOMAIN other = DOMAIN monitor.snap.Metrics
           /\ \A name \in DOMAIN other : other[name].Value = monitor.snap.Metrics[name].Value

\* C28: the report of a fetch never blocks.  postCh and commCh of a task
\* never hold more than their capacity of one; while a fetch is running
\* its channel is empty, so its send finds room; a channel is sent to only
\* by the running fetch it was made for, once, and that send ends the
\* goroutine; and a fetch whose task has returned through the ctx.Done()
\* case can still send and end, so none stays blocked.
C28_FetchReportNeverBlocks ==
    /\ [](\A w \in Workers :
            /\ Len(postCh[w]) <= 1 /\ Len(commCh[w]) <= 1
            /\ (fpost[w] = "running" => postCh[w] = <<>> /\ ENABLED FetchPostReturn(w))
            /\ (fcomm[w] = "running" => commCh[w] = <<>> /\ ENABLED FetchCommReturn(w)))
    /\ [](abandoned > 0 => ENABLED FetchAbandonedReturn)
    /\ [](abandoned <= 2 * Cardinality({w \in Workers : wpc[w] = "stopped"}))
    /\ [][\A w \in Workers :
            /\ (Len(postCh'[w]) > Len(postCh[w]) => fpost[w] = "running" /\ fpost'[w] = "done")
            /\ (Len(commCh'[w]) > Len(commCh[w]) => fcomm[w] = "running" /\ fcomm'[w] = "done")]_vars

\* both fetches of a task have sent their outcome before the task has
\* received anything, in a cancelled run
C28_Witness ==
    \E w \in Workers :
        /\ cancelled
        /\ wpc[w] = "select" /\ i[w] = 0
        /\ Len(postCh[w]) = 1 /\ Len(commCh[w]) = 1
        /\ fpost[w] = "done" /\ fcomm[w] = "done"

\* positions of newBooks whose Id is neither in books nor earlier in newBooks
FirstNew(books, newBooks) ==
    {k \in 1..Len(newBooks) :
       /\ newBooks[k].Id \notin Ids(books)
       /\ \A j \in 1..(k - 1) : newBooks[j].Id # newBooks[k].Id}

\* C29: AppendNewBooks.  The result of a call starts with books as they
\* were, followed by the entries of newBooks whose Id occurs neither in
\* books nor earlier in newBooks, in the order of newBooks and nothing else;
\* when every Id of newBooks is in books the result is books; applied to its
\* own result with the same newBooks it returns that result, and so does a
\* repeated request that reads what the first one returned.
C29_AppendNewBooks ==
    shelf.adds >= 1 /\ shelf.status \in {200, 500} =>
      LET books == shelf.books
          newBooks == shelf.body
          result == shelf.result
          fresh == FirstNew(books, newBooks)
      IN /\ Len(result) = Len(books) + Cardinality(fresh)
         /\ SubSeq(result, 1, Len(books)) = books
         /\ \A m \in 1..Cardinality(fresh) :
               result[Len(books) + m]
                 = newBooks[CHOOSE k \in fresh : Cardinality({j \in fresh : j <= k}) = m]
         /\ (Ids(newBooks) \subseteq Ids(books) => result = books)
         /\ AppendNewBooks(result, newBooks) = result
         /\ (shelf.adds = 2 /\ shelf.books = shelf.first => result = shelf.first)

\* a body with two books of one new Id, sent twice to a shelf of one book:
\* the first of the two was added, once
C29_Witness ==
    /\ shelf.adds = 2 /\ shelf.status = 200
    /\ Len(shelf.body) = 2 /\ shelf.body[1].Id = shelf.body[2].Id
    /\ shelf.body[1].Title # shelf.body[2].Title
    /\ shelf.books = shelf.first
    /\ Len(shelf.first) = 2
    /\ shelf.file = <<[Id |-> "1", Title |-> "x"], shelf.body[1]>>

C31_CancelPathEndsWorker ==
    /\ [][\A w \in Workers :
            wpc[w] = "select" /\ wpc'[w] = "stopped" =>
              /\ Len(resps') = Len(resps) + 1
              /\ resps'[Len(resps')].id = u[w].id
              /\ jobs' = jobs
              /\ \A x \in Workers \ {w} : wpc'[x] = wpc[x] /\ u'[x] = u[x]]_vars
    /\ [][\A w \in Workers :
            wpc[w] = "stopped" => wpc'[w] = "stopped" /\ u'[w] = u[w]]_vars
    /\ [][Len(jobs') < Len(jobs) =>
            /\ jobs' = Tail(jobs)
            /\ \E w \in Workers :
                  wpc[w] = "idle" /\ wpc'[w] = "select" /\ u'[w] = Head(jobs)]_vars
    /\ [](\A w \in Workers :
            wpc[w] = "stopped" =>
              /\ Occurrences(Forwarded, u[w].id) = 1
              /\ Occurrences(jobs, u[w].id) = 0
              /\ \A x \in Workers \ {w} : wpc[x] = "stopped" => u[x].id # u[w].id)

\* a worker has returned through the ctx.Done() case while a descriptor is
\* still in jobs and another worker is idle
C31_Witness ==
    \E w, x \in Workers :
        /\ wpc[w] = "stopped"
        /\ Occurrences(Forwarded, u[w].id) = 1
        /\ jobs # <<>>
        /\ wpc[x] = "idle"

\* C32: cancellation is observed only inside an item task.  The step that
\* cancels ctx moves no worker; an idle worker of a cancelled run can do
\* nothing while jobs is empty, and nothing but dequeue when it is not;
\* that dequeue takes the head of jobs into the select loop with both
\* fetches running; only there can the ctx.Done() case be taken, and only
\* with an outcome still missing; an outcome that has arrived can still be
\* received, and with both received the task goes on to apply them, so the
\* descriptor of an item dequeued after the signal is forwarded with
\* success true exactly when its post was fetched.
C32_CancelSeenOnlyInTask ==
    /\ [][~cancelled /\ cancelled' => UNCHANGED <<wpc, u, i, jobs, resps>>]_vars
    /\ [](\A w \in Workers :
            /\ (wpc[w] # "select" \/ i[w] >= 2 => ~ENABLED WorkerCancelled(w))
            /\ (cancelled /\ wpc[w] = "idle" =>
                  IF jobs = <<>> THEN ~ENABLED Worker(w)
                  ELSE ENABLED WorkerDequeue(w))
            /\ (cancelled /\ wpc[w] = "select" /\ i[w] < 2 =>
                  /\ (postCh[w] # <<>> => ENABLED WorkerRecvPost(w))
                  /\ (commCh[w] # <<>> => ENABLED WorkerRecvComm(w)))
            /\ (cancelled /\ wpc[w] = "select" /\ i[w] = 2 => ENABLED WorkerFinish(w))
            /\ (late[w] => cancelled))
    /\ [][\A w \in Workers :
            cancelled /\ wpc[w] = "idle" /\ wpc'[w] # "idle" =>
              /\ wpc'[w] = "select" /\ late'[w]
              /\ u'[w] = Head(jobs) /\ jobs' = Tail(jobs)
              /\ fpost'[w] = "running" /\ fcomm'[w] = "running"
              /\ resps' = resps]_vars
    /\ [][\A w \in Workers :
            late[w] /\ Forwards(w) /\ i[w] = 2 =>
              /\ wpc'[w] = "idle"
              /\ resps'[Len(resps')] = ApplyResults(u[w], pr[w], cr[w])
              /\ (resps'[Len(resps')].success <=> pr[w].err = "nil")]_vars

\* the only worker of a run has forwarded, with success true, a descriptor
\* that it dequeued after ctx was cancelled
C32_Witness ==
    /\ nw = 1 /\ cancelled
    /\ late[1] /\ wpc[1] = "idle"
    /\ Forwarded # <<>>
    /\ Forwarded[Len(Forwarded)].success
    /\ Forwarded[Len(Forwarded)].post # <<>>

\* fetches started and not yet returned
Outstanding == SumOver([w \in Workers |-> Running(w)], MaxWorkers) + abandoned

\* C33: fetches in flight.  With nw >= 0 workers at most 2 * nw fetches are
\* started and not returned, cancelled or not; a fetch is started only by
\* the dequeue of a descriptor, which starts one fetchPost and one
\* fetchComments for it; a worker outside its select loop has none, and no
\* step adds a fetch to those running for a descriptor, so none is retried.
C33_FetchesInFlight ==
    /\ [](nw >= 0 => Outstanding <= 2 * nw)
    /\ [](\A w \in Workers :
            IF wpc[w] = "select"
            THEN fpost[w] \in {"running", "done"} /\ fcomm[w] \in {"running", "done"}
            ELSE fpost[w] = "none" /\ fcomm[w] = "none")
    /\ [][\A w \in Workers :
            \/ fpost[w] # "running" /\ fpost'[w] = "running"
            \/ fcomm[w] # "running" /\ fcomm'[w] = "running"
            \/ wpc[w] = "idle" /\ wpc'[w] = "select"
            => /\ wpc[w] = "idle" /\ wpc'[w] = "select"
               /\ jobs # <<>> /\ u'[w] = Head(jobs) /\ jobs' = Tail(jobs)
               /\ fpost'[w] = "running" /\ fcomm'[w] = "running"
               /\ Outstanding' = Outstanding + 2]_vars
    /\ [][Outstanding' > Outstanding =>
            \E w \in Workers : wpc[w] = "idle" /\ wpc'[w] = "select"]_vars

\* two workers, four fetches outstanding: two of a worker that returned
\* through the ctx.Done() case, two of a worker in its select loop
C33_Witness ==
    /\ nw = 2 /\ cancelled
    /\ abandoned = 2
    /\ \E w \in Workers : wpc[w] = "select" /\ Running(w) = 2
    /\ Outstanding = 4

\* C34: variant equivalence.  With ctx never cancelled, every descriptor
\* either variant forwards is the merge of the descriptor as read with what
\* its two fetches returned, and the merge of the concurrent worker and
\* that of the sequential one give the same descriptor for every pair of
\* outcomes; each descriptor is forwarded at most once; and either variant
\* comes to rest with every descriptor received once when the flags are
\* accepted and there is a worker or no line, and with none otherwise.
C34_VariantEquivalence ==
    /\ \A j \in 1..Len(Forwarded) :
          LET d == Forwarded[j]
              base == Url(d.id, lines[d.id])
          IN /\ postRet[d.id] # <<>> /\ commRet[d.id] # <<>>
             /\ d = ApplyResults(base, postRet[d.id][1], commRet[d.id][1])
             /\ d = EarlierApply(base, postRet[d.id][1], commRet[d.id][1])
             /\ Occurrences(Forwarded, d.id) = 1
    /\ (mainPc = "done" => RunEndedComplete)
    /\ (~ENABLED NextVariants =>
          IF Rejected THEN mainPc = "panic"
          ELSE IF nw >= 1 \/ numJobs = 0 THEN RunEndedComplete
          ELSE mainPc = "recv" /\ results = <<>>)

\* a run of the concurrent variant has ended with one descriptor whose
\* comments could not be fetched and one whose post could not
C34_Witness ==
    /\ variant = "concurrent"
    /\ mainPc = "done" /\ numJobs = 2
    /\ \E j \in 1..2 : results[j].success /\ DependentFailed(results[j].id)
    /\ \E j \in 1..2 : ~results[j].success /\ DependentOk(results[j].id)

\* C35: workers outlive the run.  While ctx is not cancelled no worker is
\* stopped, and jobs is never closed; once main has received all numJobs
\* descriptors, every one of the nw workers is idle with jobs empty and
\* nothing it could do, no fetch is outstanding, and main prints and ends
\* all the same, leaving the workers where they are.
C35_WorkersOutliveRun ==
    /\ [](~cancelled =>
            /\ ~jobsClosed
            /\ \A w \in Workers : wpc[w] # "stopped"
            /\ (mainPc \in {"present", "done"} =>
                  /\ Len(results) = numJobs /\ jobs = <<>> /\ resps = <<>>
                  /\ Outstanding = 0
                  /\ \A w \in Workers :
                        /\ wpc[w] = (IF w <= nw THEN "idle" ELSE "unstarted")
                        /\ ~ENABLED Worker(w))
            /\ (mainPc = "present" => ENABLED MainPresent))
    /\ [][~cancelled' /\ mainPc = "present" /\ mainPc' # "present" =>
            mainPc' = "done" /\ wpc' = wpc]_vars

\* main has ended an uncancelled run of two workers over two lines; both
\* workers are idle
C35_Witness ==
    /\ ~cancelled
    /\ mainPc = "done"
    /\ nw = 2 /\ numJobs = 2 /\ Len(results) = 2
    /\ \A w \in 1..2 : wpc[w] = "idle"

\* a occurs in b, entry by entry and in the same order
RECURSIVE IsSubsequence(_, _)
IsSubsequence(a, b) ==
    IF a = <<>> THEN TRUE
    ELSE IF b = <<>> THEN FALSE
    ELSE IF Head(a) = Head(b) THEN IsSubsequence(Tail(a), Tail(b))
    ELSE IsSubsequence(a, Tail(b))

\* C36 as stated: an add-book request never removes or alters a book in the
\* store.  Every request, also one during which books.json cannot be read,
\* leaves every book of books.json in it, unchanged and in the same order;
\* a request that is no POST leaves books.json as it is, with status 405.
C36_AddNeverRemoves ==
    [][/\ IsSubsequence(shelf.file, shelf'.file)
       /\ (shelf'.status = 405 => shelf'.file = shelf.file)]_vars
====
